---- MODULE Spec2Model ----
(***************************************************************************)
(* A model of the botanical_auto_uploader pipeline:                        *)
(*   core/state_store.py   StateStore (the JSON state document),           *)
(*   pipeline/loader.py    find_new_product_folders,                       *)
(*   run_once.py           main (discovery, then the processor),           *)
(*   pipeline/processor.py process_new_folders_debug,                      *)
(*   core/folder_utils.py  parse_folder_name,                              *)
(*   pipeline/processor.py parse_folder_name (the processor's own parser), *)
(*   core/product_normalizer.py normalize_product and its helpers,         *)
(*   core/etsy_exporter.py product_to_etsy_row, export_products_to_csv,    *)
(*   pipeline/processor.py classify_files, build_folder_context.           *)
(*                                                                         *)
(* Seven specifications share the variables:                               *)
(*   Spec       runs of run_once.main, Drive folders arriving, and an      *)
(*              operator session calling mark_folder_status directly;      *)
(*   SpecLoad   StateStore constructed over every shape of state file,     *)
(*              well formed or not, followed by its queries;               *)
(*   SpecParse  both parse_folder_name functions applied to bounded folder *)
(*              names;                                                     *)
(*   SpecNorm   build_folder_context and normalize_product applied to      *)
(*              bounded folder names and AI answers;                       *)
(*   SpecExport export_products_to_csv applied to bounded lists of         *)
(*              (product, image files) pairs;                              *)
(*   SpecFetch  build_folder_context over bounded file listings, with      *)
(*              either download failing or none;                           *)
(*   SpecRace   two processes, each with a StateStore of its own over one  *)
(*              state file, calling mark_folder_status.                    *)
(***************************************************************************)
EXTENDS Integers, Sequences, FiniteSets, TLC

VARIABLES
    doc,                 \* the content of STATE_STORE_FILE
    drive,               \* ids of the subfolders of INBOX_FOLDER_ID, by createdTime
    pc,                  \* position of run_once.main
    runs,                \* number of runs of run_once.main started
    state_main,          \* run_once.main: state._state
    all_folders,         \* find_new_product_folders: all_folders
    new_folders,         \* run_once.main: new_folders
    mi,                  \* run_once.main: folders of new_folders already marked
    state_proc,          \* process_new_folders_debug: state._state
    pending_records,     \* process_new_folders_debug: pending_records, in items() order
    pi,                  \* index in pending_records of the record the loop handles next
    outcomes,            \* history: the folders the loop handled, each "ok" or "failed"
    products_for_export, \* process_new_folders_debug: products_for_export
    exported,            \* the rows written by export_products_to_csv
    docAtProc,           \* history: the document when the processor started
    failedEarlier,       \* history: ids whose processing failed in an earlier run, not reset since
    op_open,             \* the operator session holds a StateStore
    state_op,            \* operator session: its store's _state
    ops,                 \* number of operator calls made
    lastCall,            \* history: the mark_folder_status call the last step made, if any
    lastWriter,          \* history: the store that wrote the document last, "gone" once discarded
    ldoc,                \* SpecLoad: the state file's content
    lstate,              \* SpecLoad: the constructed store's _state
    lpc,                 \* SpecLoad: position
    qres,                \* SpecLoad: the result of the last query
    name,                \* SpecParse: the folder name
    form,                \* SpecParse: the components the name was built from
    ppc,                 \* SpecParse: position
    parsed,              \* SpecParse: the result of core.folder_utils.parse_folder_name(name)
    qpc,                 \* SpecParse: position of the call of the processor's parser
    proc_parsed,         \* SpecParse: the result of pipeline.processor.parse_folder_name(name)
    norm_name,           \* SpecNorm: folder_meta["name"], the name of the Drive folder
    ai_data,             \* SpecNorm: the JSON object call_openai_for_product returned
    ctx,                 \* SpecNorm: the FolderContext build_folder_context returned
    npc,                 \* SpecNorm: position
    product,             \* SpecNorm: the result of normalize_product(ai_json, folder_ctx)
    tags_again,          \* SpecNorm: clean_tags applied to product.tags
    export_in,           \* SpecExport: the (ProductDraft, image_files) pairs to export
    xpc,                 \* SpecExport: position
    csv_rows,            \* SpecExport: the rows export_products_to_csv wrote
    folder_files,        \* SpecFetch: the files drive.list_files_in_folder returns
    fpc,                 \* SpecFetch: position
    fetched,             \* SpecFetch: how build_folder_context ended, and its downloads
    shared_doc,          \* SpecRace: the content of the state file two processes share
    store_of,            \* SpecRace: per process, whether it holds a StateStore and its _state
    loaded_at,           \* SpecRace: history, per process the number of writes before its load
    loaded_doc,          \* SpecRace: history, the document before any process wrote
    writes               \* SpecRace: history, the mark_folder_status calls that wrote, in order

pipeVars == <<doc, drive, pc, runs, state_main, all_folders, new_folders, mi,
              state_proc, pending_records, pi, outcomes, products_for_export,
              exported, docAtProc, failedEarlier, op_open, state_op, ops,
              lastCall, lastWriter>>
loadVars == <<ldoc, lstate, lpc, qres>>
parseVars == <<name, form, ppc, parsed, qpc, proc_parsed>>
normVars == <<norm_name, ai_data, ctx, npc, product, tags_again>>
exportVars == <<export_in, xpc, csv_rows>>
fetchVars == <<folder_files, fpc, fetched>>
raceVars == <<shared_doc, store_of, loaded_at, loaded_doc, writes>>
moreVars == <<exportVars, fetchVars, raceVars>>
vars == <<pipeVars, loadVars, parseVars, normVars, moreVars>>

----------------------------------------------------------------------------
(* Bounds *)

NumFolders == 2      \* folder ids are 1..NumFolders
MaxRuns == 2         \* runs of run_once.main
MaxOps == 2          \* operator calls

Ids == 1..NumFolders

----------------------------------------------------------------------------
(* Values *)

Statuses == {"pending", "success", "failed"}
\* rec.get("status") of a record that has no "status" key: None.
NoStatus == "None"

\* The name Drive gives to a folder, and another name a caller may pass.
NameOf(id) == <<"folder", id>>
OtherName == <<"renamed", 0>>

\* platforms: a mapping platform -> metadata, as a set of <<platform, metadata>>.
NoPlatforms == {}
EtsyDraft == {<<"etsy", "draft">>}

\* Keys of a folder record other than name, status and platforms, as a set of
\* <<key, value>>; createdTime is the one the processor reads (rec.get("createdTime", "")).
NoExtra == {}
CreatedTime == {<<"createdTime", "t1">>}

Rec(n, s, p, x) == [name |-> n, status |-> s, platforms |-> p, extra |-> x]

\* A dict id -> record keeps insertion order (Python dict, JSON object):
\* a sequence of entries with distinct ids.
Entry(id, rec) == [id |-> id, rec |-> rec]
Keys(d) == {d[i].id : i \in DOMAIN d}
Has(d, id) == id \in Keys(d)
IndexOf(d, id) == CHOOSE i \in DOMAIN d : d[i].id = id
Get(d, id) == d[IndexOf(d, id)].rec
\* d[id] = rec: an existing key keeps its place, a new key goes last.
Put(d, id, rec) ==
    IF Has(d, id)
    THEN [d EXCEPT ![IndexOf(d, id)] = Entry(id, rec)]
    ELSE Append(d, Entry(id, rec))

\* A JSON value as json.load returns it, as far as the store looks at it.
\*   kind        "object", "array", "string", "number", "bool", "null";
\*               for a file also "absent" and "garbage" (unreadable or not JSON)
\*   hasFolders  the value of the Python test  "folders" in value  (object: the
\*               key is present; array: an element equals it; string: a substring)
\*   fkind       object with the key: the kind of value["folders"] ("map" for an object)
\*   folders     value["folders"] when it is an object
Json(k, h, fk, f) == [kind |-> k, hasFolders |-> h, fkind |-> fk, folders |-> f]
FoldersDoc(f) == Json("object", TRUE, "map", f)
EmptyState == FoldersDoc(<<>>)
AbsentFile == Json("absent", FALSE, "none", <<>>)

----------------------------------------------------------------------------
(* core/state_store.py: StateStore *)

\* _load: the _state a new StateStore holds over a file.
\*   no file                         -> {"folders": {}}
\*   open or json.load raises        -> except: {"folders": {}}
\*   null, number, bool              -> "folders" not in x raises TypeError -> except
\*   string or array without it      -> x["folders"] = {} raises TypeError -> except
\*   string or array holding it      -> kept as loaded
\*   object without the key          -> the key is added with {}
\*   object with the key             -> kept as loaded, whatever the key's value
_load(file) ==
    CASE file.kind = "absent" -> EmptyState
      [] file.kind = "garbage" -> EmptyState
      [] file.kind \in {"null", "number", "bool"} -> EmptyState
      [] file.kind \in {"string", "array"} ->
            IF file.hasFolders THEN file ELSE EmptyState
      [] file.kind = "object" ->
            IF file.hasFolders THEN file ELSE FoldersDoc(<<>>)

\* A serializer that writes only the keys it knows of each record.
RECURSIVE KnownKeysOnly(_)
KnownKeysOnly(d) ==
    IF d = <<>> THEN <<>>
    ELSE <<Entry(d[1].id, Rec(d[1].rec.name, d[1].rec.status, d[1].rec.platforms, {}))>>
         \o KnownKeysOnly(Tail(d))
save_known_keys(state) ==
    Json(state.kind, state.hasFolders, state.fkind, KnownKeysOnly(state.folders))

\* _save: json.dump(self._state) over the whole file. json.dump and json.load
\* are inverse on what the store holds (string keys, strings, nested dicts,
\* in insertion order), so the file holds the JSON value of _state.
_save(state) == Json(state.kind, state.hasFolders, state.fkind, state.folders)

\* A call's outcome: raised, or returned with a value.
Raised == [raised |-> TRUE, ids |-> {}, recs |-> <<>>]
ReturnIds(s) == [raised |-> FALSE, ids |-> s, recs |-> <<>>]
ReturnRecs(r) == [raised |-> FALSE, ids |-> Keys(r), recs |-> r]

\* self._state.get("folders", {}) works on a dict only; what the callers then
\* do with it (.keys(), .get(id), .items()) works on a dict only.
FoldersIsMap(state) == state.kind = "object" /\ (state.hasFolders => state.fkind = "map")
FoldersOf(state) == IF state.hasFolders THEN state.folders ELSE <<>>

\* get_processed_folder_ids: set(self._state.get("folders", {}).keys())
get_processed_folder_ids_success_only(state) ==
    IF FoldersIsMap(state)
    THEN ReturnIds({id \in Keys(FoldersOf(state)) :
                        Get(FoldersOf(state), id).status = "success"})
    ELSE Raised
get_processed_folder_ids(state) ==
    IF FoldersIsMap(state) THEN ReturnIds(Keys(FoldersOf(state))) ELSE Raised

\* get_folder_record: self._state.get("folders", {}).get(folder_id, {});
\* the record as a sequence of one entry, {} as the empty sequence.
get_folder_record(state, folder_id) ==
    IF FoldersIsMap(state)
    THEN IF Has(FoldersOf(state), folder_id)
         THEN ReturnRecs(<<Entry(folder_id, Get(FoldersOf(state), folder_id))>>)
         ELSE ReturnRecs(<<>>)
    ELSE Raised

\* platforms or {}: the argument is None (not given) or a mapping.
PlatformsNone == [given |-> FALSE, val |-> NoPlatforms]
PlatformsArg(p) == [given |-> TRUE, val |-> p]
PlatformsOrEmpty(platforms) == IF platforms.given THEN platforms.val ELSE NoPlatforms

\* mark_folder_status: the new _state and the new file content, or raised
\* with both unchanged (self._state["folders"][folder_id] = ... raises
\* TypeError unless _state is a dict whose "folders" is a dict).
NewRecord(nm, status, platforms) ==
    Rec(nm, status, PlatformsOrEmpty(platforms), NoExtra)
MarkResult(r, s, f) == [raised |-> r, state |-> s, file |-> f]
mark_merge(state, file, folder_id, nm, status, platforms) ==
    LET old == IF Has(state.folders, folder_id)
               THEN Get(state.folders, folder_id)
               ELSE Rec(nm, status, NoPlatforms, NoExtra)
        new == FoldersDoc(Put(state.folders, folder_id,
                   Rec(nm, status,
                       IF platforms.given THEN platforms.val ELSE old.platforms,
                       old.extra)))
    IN MarkResult(FALSE, new, _save(new))
mark_no_save(state, file, folder_id, nm, status, platforms) ==
    MarkResult(FALSE,
               FoldersDoc(Put(state.folders, folder_id, NewRecord(nm, status, platforms))),
               file)
\* A variant that reads the file again before it writes.
mark_reload(state, file, folder_id, nm, status, platforms) ==
    LET new == FoldersDoc(Put(FoldersOf(_load(file)), folder_id,
                              NewRecord(nm, status, platforms)))
    IN MarkResult(FALSE, new, _save(new))
mark_folder_status(state, file, folder_id, nm, status, platforms) ==
    IF state.kind = "object" /\ ~state.hasFolders
    THEN LET new == FoldersDoc(<<Entry(folder_id, NewRecord(nm, status, platforms))>>)
         IN MarkResult(FALSE, new, _save(new))
    ELSE IF state.kind = "object" /\ state.fkind = "map"
    THEN LET new == FoldersDoc(Put(state.folders, folder_id,
                                   NewRecord(nm, status, platforms)))
         IN MarkResult(FALSE, new, _save(new))
    ELSE MarkResult(TRUE, state, file)

\* list_unfinished_folders: status_filter or ["pending", "failed"], then the
\* records whose rec.get("status") is in it, in items() order. The filter is
\* None (not given) or a list, here the set of its members.
FilterNone == [given |-> FALSE, val |-> {}]
FilterArg(s) == [given |-> TRUE, val |-> s]
FilterOrDefault(status_filter) ==
    IF status_filter.given /\ status_filter.val # {}
    THEN status_filter.val
    ELSE {"pending", "failed"}
list_unfinished_folders(state, status_filter) ==
    IF FoldersIsMap(state)
    THEN LET f == FoldersOf(state)
             keep(e) == e.rec.status \in FilterOrDefault(status_filter)
         IN ReturnRecs(SelectSeq(f, keep))
    ELSE Raised

----------------------------------------------------------------------------
(* core/drive_client.py, pipeline/loader.py *)

\* list_subfolders: the subfolders of the inbox, ordered by createdTime.
FolderMeta(id) == [id |-> id, name |-> NameOf(id)]
list_subfolders(d) == [i \in 1..Len(d) |-> FolderMeta(d[i])]

\* find_new_product_folders: a StateStore of its own over the file, then
\* [f for f in all_folders if f["id"] not in processed_ids].
\* A variant that returns every listed folder.
find_all_listed_folders(file, listing) ==
    [raised |-> get_processed_folder_ids(_load(file)).raised,
     folders |-> IF get_processed_folder_ids(_load(file)).raised THEN <<>> ELSE listing]
find_new_product_folders(file, listing) ==
    LET processed_ids == get_processed_folder_ids(_load(file))
        isNew(f) == f.id \notin processed_ids.ids
    IN [raised |-> processed_ids.raised,
        folders |-> IF processed_ids.raised THEN <<>> ELSE SelectSeq(listing, isNew)]

----------------------------------------------------------------------------
(* pipeline/processor.py: process_new_folders_debug *)

\* How the try block of one folder ends: it reaches products_for_export.append,
\* or one of its calls raises (build_folder_context: no files, no images, a
\* download error; call_openai_for_product: the API call, a response that is
\* not JSON; normalize_product).
Errors == {"no_files", "no_images", "download_error", "ai_error", "bad_json",
           "normalize_error"}
Outcomes == {"ok"} \cup Errors

\* History of the loop: the folder handled and whether its try block raised
\* (the except clause does the same for every exception).
Handled(folder_id, outcome) ==
    [id |-> folder_id, result |-> IF outcome = "ok" THEN "ok" ELSE "failed"]

\* The (ProductDraft, image_files) pair appended for a folder, by the folder
\* its FolderContext was built from.
Product(folder_id) == [folder_id |-> folder_id]

\* The index in pending_records of the record the loop handles after record i
\* of n: except Exception: ... continue goes on with the next one, as the end
\* of the try block does.
NextRecordAbort(i, n, outcome) == IF outcome = "ok" THEN i + 1 ELSE n + 1
NextRecord(i, n, outcome) == i + 1

\* export_products_to_csv: one row per pair, in the order of the list.
export_products_to_csv(products) == [i \in 1..Len(products) |-> [of |-> products[i].folder_id]]

----------------------------------------------------------------------------
(* The state documents a run may find *)

\* A record of an earlier or later version of the tool: it carries platform
\* data and a key the store does not know.
InitRec(id) == Rec(NameOf(id), "pending", EtsyDraft, CreatedTime)

RECURSIVE FoldersFrom(_, _)
FoldersFrom(c, i) ==
    IF i > NumFolders THEN <<>>
    ELSE (IF c[i] = 0 THEN <<>> ELSE <<Entry(i, InitRec(i))>>)
         \o FoldersFrom(c, i + 1)

NoKeyDoc == Json("object", FALSE, "none", <<>>)
WellFormedDocs ==
    {AbsentFile, NoKeyDoc} \cup {FoldersDoc(FoldersFrom(c, 1)) : c \in [Ids -> 0..1]}

----------------------------------------------------------------------------
(* Spec: run_once.main, the Drive inbox, the operator session *)

\* History of a call: its arguments, and the record the store held for the id
\* before it (a sequence of at most one entry).
NoCall == [op |-> "none", store |-> "none", id |-> 0, name |-> OtherName,
           status |-> "none", platforms |-> PlatformsNone, prev |-> <<>>]
MarkCall(store, before, id, nm, status, platforms) ==
    [op |-> "mark", store |-> store, id |-> id, name |-> nm,
     status |-> status, platforms |-> platforms,
     prev |-> get_folder_record(before, id).recs]

Idle == pc = "idle"

runVars == <<state_main, all_folders, new_folders, mi, state_proc,
             pending_records, pi, outcomes, products_for_export, exported, docAtProc>>
opVars == <<op_open, state_op, ops>>
markVars == <<lastCall, lastWriter>>

PipeStart(file) ==
    /\ doc = file
    /\ drive = <<>>
    /\ pc = "idle"
    /\ runs = 0
    /\ state_main = EmptyState
    /\ all_folders = <<>>
    /\ new_folders = <<>>
    /\ mi = 0
    /\ state_proc = EmptyState
    /\ pending_records = <<>>
    /\ pi = 1
    /\ outcomes = <<>>
    /\ products_for_export = <<>>
    /\ exported = <<>>
    /\ docAtProc = AbsentFile
    /\ failedEarlier = {}
    /\ op_open = FALSE
    /\ state_op = EmptyState
    /\ ops = 0
    /\ lastCall = NoCall
    /\ lastWriter = "none"
PipeInit == \E file \in WellFormedDocs : PipeStart(file)

\* A product folder appears in the inbox, the ids in the order of creation (a folder that appears during a run is
\* seen by it exactly when it appeared before list_subfolders).
DriveAdd(id) ==
    /\ Idle
    /\ id = Len(drive) + 1
    /\ drive' = Append(drive, id)
    /\ UNCHANGED <<doc, pc, runs, runVars, failedEarlier, opVars, lastWriter>>
    /\ UNCHANGED <<loadVars, parseVars, normVars, moreVars>>
    /\ lastCall' = NoCall

\* run_once.main, line 10: state = StateStore(STATE_STORE_FILE)
MainStart ==
    /\ Idle
    /\ runs < MaxRuns
    /\ runs' = runs + 1
    /\ state_main' = _load(doc)
    /\ pc' = "discover"
    /\ UNCHANGED <<doc, drive, all_folders, new_folders, mi, state_proc,
                   pending_records, pi, outcomes, products_for_export, exported,
                   docAtProc, failedEarlier, opVars, lastWriter>>
    /\ UNCHANGED <<loadVars, parseVars, normVars, moreVars>>
    /\ lastCall' = NoCall

\* main returns (or an error ended it): its locals are gone.
MainReturn ==
    /\ pc \in {"done", "aborted"}
    /\ pc' = "idle"
    /\ state_main' = EmptyState
    /\ all_folders' = <<>>
    /\ new_folders' = <<>>
    /\ mi' = 0
    /\ state_proc' = EmptyState
    /\ pending_records' = <<>>
    /\ pi' = 1
    /\ outcomes' = <<>>
    /\ products_for_export' = <<>>
    /\ exported' = <<>>
    /\ docAtProc' = AbsentFile
    /\ lastCall' = NoCall
    /\ lastWriter' = IF lastWriter = "main" THEN "gone" ELSE lastWriter
    /\ UNCHANGED <<doc, drive, runs, failedEarlier, opVars>>
    /\ UNCHANGED <<loadVars, parseVars, normVars, moreVars>>

\* run_once.main, line 16: new_folders = find_new_product_folders().
\* DriveClient() and list_subfolders are outside any try: an API error ends the run.
Discover(api_ok) ==
    /\ pc = "discover"
    /\ LET listing == list_subfolders(drive)
           found == find_new_product_folders(doc, listing)
       IN IF api_ok /\ ~found.raised
          THEN /\ all_folders' = listing
               /\ new_folders' = found.folders
               /\ pc' = "mark"
          ELSE /\ pc' = "aborted"
               /\ UNCHANGED <<all_folders, new_folders>>
    /\ UNCHANGED <<doc, drive, runs, state_main, mi, state_proc, pending_records,
                   pi, outcomes, products_for_export, exported, docAtProc,
                   failedEarlier, opVars, lastWriter>>
    /\ UNCHANGED <<loadVars, parseVars, normVars, moreVars>>
    /\ lastCall' = NoCall

\* run_once.main, lines 20-31: one iteration of  for folder in new_folders.
MarkPending ==
    /\ pc = "mark"
    /\ mi < Len(new_folders)
    /\ LET folder == new_folders[mi + 1]
           r == mark_folder_status(state_main, doc, folder.id, folder.name,
                                   "pending", PlatformsArg(NoPlatforms))
       IN IF r.raised
          THEN /\ pc' = "aborted"
               /\ lastCall' = NoCall
               /\ UNCHANGED <<doc, state_main, mi, lastWriter>>
          ELSE /\ state_main' = r.state
               /\ doc' = r.file
               /\ mi' = mi + 1
               /\ lastCall' = MarkCall("main", state_main, folder.id, folder.name, "pending",
                                       PlatformsArg(NoPlatforms))
               /\ lastWriter' = "main"
               /\ pc' = "mark"
    /\ UNCHANGED <<drive, runs, all_folders, new_folders, state_proc,
                   pending_records, pi, outcomes, products_for_export, exported,
                   docAtProc, failedEarlier, opVars>>
    /\ UNCHANGED <<loadVars, parseVars, normVars, moreVars>>

\* process_new_folders_debug, lines 189-198: a StateStore and a DriveClient of
\* its own, then the pending records; it returns when there is none.
ProcStart(api_ok) ==
    /\ pc = "mark"
    /\ mi = Len(new_folders)
    /\ LET st == _load(doc)
           pend == list_unfinished_folders(st, FilterArg({"pending"}))
       IN /\ state_proc' = st
          /\ docAtProc' = doc
          /\ IF ~api_ok \/ pend.raised
             THEN pc' = "aborted" /\ UNCHANGED pending_records
             ELSE /\ pending_records' = pend.recs
                  /\ pc' = IF pend.recs = <<>> THEN "done" ELSE "loop"
    /\ UNCHANGED <<doc, drive, runs, state_main, all_folders, new_folders, mi, pi,
                   outcomes, products_for_export, exported, failedEarlier,
                   opVars, lastWriter>>
    /\ UNCHANGED <<loadVars, parseVars, normVars, moreVars>>
    /\ lastCall' = NoCall

\* process_new_folders_debug, lines 203-269: one iteration of
\* for folder_id, rec in pending_records.items().
ProcFolder(outcome) ==
    /\ pc = "loop"
    /\ pi <= Len(pending_records)
    /\ outcomes' = Append(outcomes, Handled(pending_records[pi].id, outcome))
    /\ products_for_export' =
           IF outcome = "ok"
           THEN Append(products_for_export, Product(pending_records[pi].id))
           ELSE products_for_export
    /\ pi' = NextRecord(pi, Len(pending_records), outcome)
    /\ UNCHANGED <<doc, drive, pc, runs, state_main, all_folders, new_folders, mi,
                   state_proc, pending_records, exported, docAtProc,
                   failedEarlier, opVars, lastWriter>>
    /\ UNCHANGED <<loadVars, parseVars, normVars, moreVars>>
    /\ lastCall' = NoCall

\* process_new_folders_debug, lines 271-300: the export, and the end of the run.
ProcExport ==
    /\ pc = "loop"
    /\ pi > Len(pending_records)
    /\ exported' = IF products_for_export # <<>>
                   THEN export_products_to_csv(products_for_export)
                   ELSE <<>>
    /\ failedEarlier' = failedEarlier \cup
           {outcomes[i].id : i \in {j \in DOMAIN outcomes : outcomes[j].result = "failed"}}
    /\ pc' = "done"
    /\ UNCHANGED <<doc, drive, runs, state_main, all_folders, new_folders, mi,
                   state_proc, pending_records, pi, outcomes, products_for_export,
                   docAtProc, opVars, lastWriter>>
    /\ UNCHANGED <<loadVars, parseVars, normVars, moreVars>>
    /\ lastCall' = NoCall

\* The operator constructs a StateStore over the file (between runs: the
\* store is single-writer).
OpOpen ==
    /\ Idle
    /\ ~op_open \/ state_op # _load(doc)
    /\ op_open' = TRUE
    /\ state_op' = _load(doc)
    /\ lastWriter' = IF lastWriter = "op" THEN "gone" ELSE lastWriter
    /\ UNCHANGED <<doc, drive, pc, runs, runVars, failedEarlier, ops>>
    /\ UNCHANGED <<loadVars, parseVars, normVars, moreVars>>
    /\ lastCall' = NoCall

\* The operator calls mark_folder_status on that store, which no run has
\* written past (single writer); a mark with status "pending" is the explicit
\* reset of a folder.
OpMark(id, nm, status, platforms) ==
    /\ Idle
    /\ op_open
    /\ state_op = _load(doc)
    /\ ops < MaxOps
    /\ LET r == mark_folder_status(state_op, doc, id, nm, status, platforms)
       IN /\ ~r.raised
          /\ state_op' = r.state
          /\ doc' = r.file
    /\ ops' = ops + 1
    /\ lastCall' = MarkCall("op", state_op, id, nm, status, platforms)
    /\ lastWriter' = "op"
    /\ failedEarlier' = IF status = "pending" THEN failedEarlier \ {id} ELSE failedEarlier
    /\ UNCHANGED <<drive, pc, runs, runVars, op_open>>
    /\ UNCHANGED <<loadVars, parseVars, normVars, moreVars>>

\* The calls the operator makes on a folder: the reset to pending, a success
\* with platform data, and a failure or a success under another name.
OpArgs(id) ==
    {[name |-> NameOf(id), status |-> "pending", platforms |-> PlatformsNone],
     [name |-> NameOf(id), status |-> "success", platforms |-> PlatformsArg(EtsyDraft)],
     [name |-> OtherName, status |-> "failed", platforms |-> PlatformsNone],
     [name |-> OtherName, status |-> "success", platforms |-> PlatformsArg(NoPlatforms)]}

PipeNext ==
    \/ \E id \in Ids : DriveAdd(id)
    \/ MainStart
    \/ MainReturn
    \/ \E api_ok \in BOOLEAN : Discover(api_ok)
    \/ MarkPending
    \/ \E api_ok \in BOOLEAN : ProcStart(api_ok)
    \/ \E outcome \in Outcomes : ProcFolder(outcome)
    \/ ProcExport
    \/ OpOpen
    \/ \E id \in Ids : \E a \in OpArgs(id) :
          OpMark(id, a.name, a.status, a.platforms)

----------------------------------------------------------------------------
(* SpecLoad: a StateStore over any state file, and its queries *)

\* The files that are not a well-formed state document: unreadable or not
\* JSON, JSON that is not an object, an object whose "folders" is not an object.
MalformedFiles ==
    {Json("garbage", FALSE, "none", <<>>),
     Json("null", FALSE, "none", <<>>),
     Json("number", FALSE, "none", <<>>),
     Json("bool", FALSE, "none", <<>>),
     Json("string", FALSE, "none", <<>>),
     Json("string", TRUE, "none", <<>>),
     Json("array", FALSE, "none", <<>>),
     Json("array", TRUE, "none", <<>>),
     Json("object", TRUE, "array", <<>>),
     Json("object", TRUE, "string", <<>>),
     Json("object", TRUE, "number", <<>>),
     Json("object", TRUE, "null", <<>>)}

Filters == {FilterNone, FilterArg({}), FilterArg({"pending"}), FilterArg({"success"}),
            FilterArg({"pending", "failed"}), FilterArg(Statuses)}

NoQuery == [op |-> "none", id |-> 0, filter |-> FilterNone, res |-> ReturnIds({})]
Query(op, id, filter, res) == [op |-> op, id |-> id, filter |-> filter, res |-> res]

\* Well-formed documents with records of every status, and records that
\* have no status.
LoadRec(id, c) ==
    CASE c = 1 -> Rec(NameOf(id), "pending", NoPlatforms, NoExtra)
      [] c = 2 -> Rec(NameOf(id), "success", EtsyDraft, CreatedTime)
      [] c = 3 -> Rec(OtherName, "failed", NoPlatforms, NoExtra)
      [] OTHER -> Rec(NameOf(id), NoStatus, NoPlatforms, NoExtra)
RECURSIVE LoadFolders(_, _)
LoadFolders(c, i) ==
    IF i > NumFolders THEN <<>>
    ELSE (IF c[i] = 0 THEN <<>> ELSE <<Entry(i, LoadRec(i, c[i]))>>)
         \o LoadFolders(c, i + 1)
LoadDocs == {FoldersDoc(LoadFolders(c, 1)) : c \in [Ids -> 0..4]}

LoadStart(file) ==
    /\ ldoc = file
    /\ lstate = EmptyState
    /\ lpc = "new"
    /\ qres = NoQuery
LoadInit == \E file \in WellFormedDocs \cup LoadDocs \cup MalformedFiles : LoadStart(file)

\* StateStore(filepath): __init__ sets {"folders": {}} and calls _load, which
\* raises nothing (its except clause catches Exception).
Construct ==
    /\ lpc = "new"
    /\ lstate' = _load(ldoc)
    /\ lpc' = "ready"
    /\ UNCHANGED <<ldoc, qres>>
    /\ UNCHANGED <<pipeVars, parseVars, normVars, moreVars>>

QueryIds ==
    /\ lpc = "ready"
    /\ qres' = Query("ids", 0, FilterNone, get_processed_folder_ids(lstate))
    /\ UNCHANGED <<ldoc, lstate, lpc>>
    /\ UNCHANGED <<pipeVars, parseVars, normVars, moreVars>>

QueryRecord(id) ==
    /\ lpc = "ready"
    /\ qres' = Query("record", id, FilterNone, get_folder_record(lstate, id))
    /\ UNCHANGED <<ldoc, lstate, lpc>>
    /\ UNCHANGED <<pipeVars, parseVars, normVars, moreVars>>

QueryUnfinished(filter) ==
    /\ lpc = "ready"
    /\ qres' = Query("unfinished", 0, filter, list_unfinished_folders(lstate, filter))
    /\ UNCHANGED <<ldoc, lstate, lpc>>
    /\ UNCHANGED <<pipeVars, parseVars, normVars, moreVars>>

LoadNext ==
    \/ Construct
    \/ QueryIds
    \/ \E id \in Ids : QueryRecord(id)
    \/ \E filter \in Filters : QueryUnfinished(filter)

----------------------------------------------------------------------------
(* core/folder_utils.py: parse_folder_name *)

\* A string is the sequence of its characters.
Letters == {"a"}
Digits == {"0", "2"}
Chars == Letters \cup Digits \cup {"-", "_", " ", "."}

SetMin(S) == CHOOSE x \in S : \A y \in S : x <= y
SetMax(S) == CHOOSE x \in S : \A y \in S : x >= y
Positions(str, c) == {i \in DOMAIN str : str[i] = c}

\* str.strip(): the whitespace characters of the model are the space and the
\* newline.
Whitespace == {" ", "\n"}
strip(str) ==
    LET keep == {i \in DOMAIN str : str[i] \notin Whitespace}
    IN IF keep = {} THEN <<>> ELSE SubSeq(str, SetMin(keep), SetMax(keep))

\* str.split(sep): every piece, the empty ones too.
RECURSIVE split(_, _)
split(str, sep) ==
    IF Positions(str, sep) = {}
    THEN <<str>>
    ELSE LET i == SetMin(Positions(str, sep))
         IN <<SubSeq(str, 1, i - 1)>> \o split(SubSeq(str, i + 1, Len(str)), sep)

\* sep.join(parts)
RECURSIVE join(_, _)
join(parts, sep) ==
    IF parts = <<>> THEN <<>>
    ELSE IF Len(parts) = 1 THEN parts[1]
    ELSE parts[1] \o <<sep>> \o join(Tail(parts), sep)

\* float(str) on the characters of Chars: surrounding whitespace, an optional
\* "-", then digits with at most one "." and at least one digit. (No string
\* over Chars spells an exponent, "inf" or "nan".)
NoPrice == [some |-> FALSE, num |-> 0, scale |-> 0]
Price(num, scale) == [some |-> TRUE, num |-> num, scale |-> scale]

Unsigned(str) == IF str # <<>> /\ str[1] = "-" THEN Tail(str) ELSE str
IsFloat(str) ==
    LET u == Unsigned(strip(str))
    IN /\ \A i \in DOMAIN u : u[i] \in Digits \cup {"."}
       /\ Cardinality(Positions(u, ".")) <= 1
       /\ \E i \in DOMAIN u : u[i] \in Digits

DigitVal(c) == IF c = "2" THEN 2 ELSE 0
RECURSIVE DigitsVal(_)
DigitsVal(ds) ==
    IF ds = <<>> THEN 0 ELSE 10 * DigitsVal(SubSeq(ds, 1, Len(ds) - 1)) + DigitVal(ds[Len(ds)])

\* num / 10^scale without trailing zeros in the fraction.
RECURSIVE Normal(_, _)
Normal(num, scale) ==
    IF scale > 0 /\ num % 10 = 0 THEN Normal(num \div 10, scale - 1) ELSE Price(num, scale)

\* The value of float(str), for a str that IsFloat accepts: num / 10^scale.
FloatValue(str) ==
    LET t == strip(str)
        u == Unsigned(t)
        dot == Positions(u, ".")
        ds == SelectSeq(u, LAMBDA c : c \in Digits)
        scale == IF dot = {} THEN 0 ELSE Len(u) - SetMin(dot)
        v == DigitsVal(ds)
    IN Normal(IF t # u THEN 0 - v ELSE v, scale)

\* The result of parse_folder_name: the tuple returned, or the exception raised.
ParseResult(t, m, sr, p) ==
    [raised |-> "none", product_type |-> t, materials |-> m, series |-> sr, price |-> p]
ParseRaised(e) ==
    [raised |-> e, product_type |-> <<>>, materials |-> <<>>, series |-> <<>>,
     price |-> NoPrice]

\* lines 20-29: left and price.
PriceSplit(str) ==
    IF Positions(str, "_") # {}
    THEN LET i == SetMax(Positions(str, "_"))
             price_part == strip(SubSeq(str, i + 1, Len(str)))
         IN [left |-> SubSeq(str, 1, i - 1),
             price |-> IF IsFloat(price_part) THEN FloatValue(price_part) ELSE NoPrice]
    ELSE [left |-> str, price |-> NoPrice]

\* lines 33-34: parts = left.split("-"); parts = [p.strip() for p in parts if p.strip()]
RECURSIVE MapStrip(_)
MapStrip(parts) ==
    IF parts = <<>> THEN <<>> ELSE <<strip(parts[1])>> \o MapStrip(Tail(parts))
Parts(left) == SelectSeq(MapStrip(split(left, "-")), LAMBDA q : q # <<>>)

\* lines 36-49: the dispatch on len(parts); with no part, parts[0] in the
\* else branch raises IndexError.
DispatchFirstTwo(parts, price) ==
    IF Len(parts) = 1 THEN ParseResult(<<>>, <<>>, parts[1], price)
    ELSE IF Len(parts) = 2 THEN ParseResult(parts[1], parts[2], <<>>, price)
    ELSE IF Len(parts) = 0 THEN ParseRaised("IndexError")
    ELSE ParseResult(parts[1], parts[2], join(SubSeq(parts, 3, Len(parts)), "-"), price)
Dispatch(parts, price) ==
    IF Len(parts) = 1 THEN ParseResult(<<>>, <<>>, parts[1], price)
    ELSE IF Len(parts) = 2 THEN ParseResult(parts[1], parts[2], <<>>, price)
    ELSE IF Len(parts) = 0 THEN ParseRaised("IndexError")
    ELSE ParseResult(parts[1], join(SubSeq(parts, 2, Len(parts) - 1), "-"),
                     parts[Len(parts)], price)

parse_folder_name(str) ==
    LET sp == PriceSplit(str) IN Dispatch(Parts(sp.left), sp.price)

----------------------------------------------------------------------------
(* pipeline/processor.py: parse_folder_name, the parser build_folder_context calls *)

\* str.split(sep, maxsplit): at most maxsplit cuts, the rest in the last piece.
RECURSIVE splitn(_, _, _)
splitn(str, sep, maxsplit) ==
    IF maxsplit = 0 \/ Positions(str, sep) = {}
    THEN <<str>>
    ELSE LET i == SetMin(Positions(str, sep))
         IN <<SubSeq(str, 1, i - 1)>>
            \o splitn(SubSeq(str, i + 1, Len(str)), sep, maxsplit - 1)

\* lines 31-39: name.rpartition("_") and float(price_part); base_part is the
\* text before the last "_" whether or not the price parsed.
ProcPriceSplit(str) ==
    IF Positions(str, "_") # {}
    THEN LET i == SetMax(Positions(str, "_"))
             price_part == SubSeq(str, i + 1, Len(str))
         IN [base_part |-> SubSeq(str, 1, i - 1),
             price |-> IF IsFloat(price_part) THEN FloatValue(price_part) ELSE NoPrice]
    ELSE [base_part |-> str, price |-> NoPrice]

\* lines 43-46: base_part.split("-", 2), each piece stripped, "" when missing.
ProcFields(base_part, price) ==
    LET parts == splitn(base_part, "-", 2)
    IN ParseResult(strip(parts[1]),
                   IF Len(parts) > 1 THEN strip(parts[2]) ELSE <<>>,
                   IF Len(parts) > 2 THEN strip(parts[3]) ELSE <<>>,
                   price)

processor_parse_folder_name(str) ==
    LET sp == ProcPriceSplit(strip(str)) IN ProcFields(sp.base_part, sp.price)

----------------------------------------------------------------------------
(* SpecParse: parse_folder_name over bounded folder names *)

MaxLen == 4          \* length of the arbitrary folder names
MaxMatParts == 2     \* hyphen-separated parts of the materials of a built name

Strings(n) == UNION {[1..k -> Chars] : k \in 0..n}

\* Tokens holding no hyphen and no underscore: plain, with inner, leading and
\* trailing whitespace, and whitespace only.
Tokens == {<<"a">>, <<"a", "2">>, <<"a", " ", "a">>, <<" ", "a">>, <<"a", " ">>, <<" ">>}
\* Numeric strings.
PriceStrs == {<<"2">>, <<"2", "0">>, <<"2", ".", "0">>, <<"0", ".", "2">>,
              <<".", "2">>, <<"2", ".", "2">>, <<"-", "2">>}

\* Where a name comes from: an arbitrary string, or the parts of
\* {product_type}-{materials}-{series}_{price}.
RawForm(str) ==
    [kind |-> "raw", raw |-> str, type |-> <<>>, materials |-> <<>>,
     series |-> <<>>, price |-> <<>>]
BuiltForm(t, ms, sr, p) ==
    [kind |-> "built", raw |-> <<>>, type |-> t, materials |-> ms,
     series |-> sr, price |-> p]
RawForms(n) == {RawForm(str) : str \in Strings(n)}
BuiltForms(n) ==
    {BuiltForm(t, ms, sr, p) :
        t \in Tokens, ms \in UNION {[1..k -> Tokens] : k \in 1..n},
        sr \in Tokens, p \in PriceStrs}
NameOfForm(f) ==
    IF f.kind = "raw" THEN f.raw
    ELSE f.type \o <<"-">> \o join(f.materials, "-") \o <<"-">> \o f.series
         \o <<"_">> \o f.price

ParseStart(f) ==
    /\ form = f
    /\ name = NameOfForm(f)
    /\ ppc = "new"
    /\ parsed = ParseRaised("none")
    /\ qpc = "new"
    /\ proc_parsed = ParseRaised("none")
ParseInit == \E f \in RawForms(MaxLen) \cup BuiltForms(MaxMatParts) : ParseStart(f)

Parse ==
    /\ ppc = "new"
    /\ parsed' = parse_folder_name(name)
    /\ ppc' = "done"
    /\ UNCHANGED <<name, form, qpc, proc_parsed>>
    /\ UNCHANGED <<pipeVars, loadVars, normVars, moreVars>>

\* build_folder_context, line 143: parsed = parse_folder_name(folder_name)
ProcParse ==
    /\ qpc = "new"
    /\ proc_parsed' = processor_parse_folder_name(name)
    /\ qpc' = "done"
    /\ UNCHANGED <<name, form, ppc, parsed>>
    /\ UNCHANGED <<pipeVars, loadVars, normVars, moreVars>>

ParseNext == Parse \/ ProcParse

----------------------------------------------------------------------------
(* core/product_normalizer.py *)

\* Characters are one string each; a CJK character of MATERIALS_MAPPING is
\* written as its code point, "U+6811".
LowerLetters == <<"a", "b", "c", "d", "e", "f", "g", "h", "i", "j", "k", "l", "m", "n", "o", "p", "q", "r", "s", "t", "u", "v", "w", "x", "y", "z">>
UpperLetters == <<"A", "B", "C", "D", "E", "F", "G", "H", "I", "J", "K", "L", "M", "N", "O", "P", "Q", "R", "S", "T", "U", "V", "W", "X", "Y", "Z">>
CjkChars == <<"U+4E94", "U+53F6", "U+5408", "U+5C5E", "U+674F", "U+677E", "U+679C", "U+67AB", "U+6811", "U+6849", "U+7518", "U+767D", "U+773C", "U+8102", "U+82B7", "U+8349", "U+91D1", "U+9488", "U+94DC", "U+94F6", "U+9ED1">>
\* The characters the strings of the model are made of, in code point order.
CodePointOrder ==
    <<"\n", " ", ",", "-", ".", "0", "2">> \o UpperLetters \o <<"_">>
    \o LowerLetters \o CjkChars

IndexIn(seq, c) == CHOOSE i \in DOMAIN seq : seq[i] = c
Ord(c) == IndexIn(CodePointOrder, c)
IsUpper(c) == \E i \in DOMAIN UpperLetters : UpperLetters[i] = c
IsLower(c) == \E i \in DOMAIN LowerLetters : LowerLetters[i] = c
LowerChar(c) == IF IsUpper(c) THEN LowerLetters[IndexIn(UpperLetters, c)] ELSE c
UpperChar(c) == IF IsLower(c) THEN UpperLetters[IndexIn(LowerLetters, c)] ELSE c
\* str.lower(), str.upper()
lower(str) == [i \in DOMAIN str |-> LowerChar(str[i])]
upper(str) == [i \in DOMAIN str |-> UpperChar(str[i])]

\* a < b for two strings: by code point, a proper prefix first.
RECURSIVE StrLess(_, _)
StrLess(a, b) ==
    IF b = <<>> THEN FALSE
    ELSE IF a = <<>> THEN TRUE
    ELSE IF a[1] = b[1] THEN StrLess(Tail(a), Tail(b))
    ELSE Ord(a[1]) < Ord(b[1])

\* sorted(list(all_materials)) for a set of strings
RECURSIVE sorted(_)
sorted(S) ==
    IF S = {} THEN <<>>
    ELSE LET least == CHOOSE x \in S : \A y \in S : x = y \/ StrLess(x, y)
         IN <<least>> \o sorted(S \ {least})

\* Values of the AI JSON: a key may be absent, hold null, or hold a value.
Absent == [kind |-> "absent", val |-> <<>>]
Null == [kind |-> "null", val |-> <<>>]
Str(s) == [kind |-> "str", val |-> s]
List(l) == [kind |-> "list", val |-> l]
AbsentPrice == [kind |-> "absent", num |-> 0, scale |-> 0]
NullPrice == [kind |-> "null", num |-> 0, scale |-> 0]
Num(num, scale) == [kind |-> "num", num |-> num, scale |-> scale]

\* ai_json.get(key, default): the default only when the key is absent.
GetOr(field, default) == IF field.kind = "absent" THEN default ELSE field
\* Python truth of a str, a list or None: a non-empty str or list.
Truthy(v) == v.kind \in {"str", "list"} /\ v.val # <<>>

\* MATERIALS_MAPPING
MATERIALS_MAPPING ==
    (<<"U+767D", "U+82B7">> :> <<"w", "h", "i", "t", "e", " ", "a", "n", "g", "e", "l", "i", "c", "a", " ", "r", "o", "o", "t">>)
    @@ (<<"U+7518", "U+8349">> :> <<"l", "i", "c", "o", "r", "i", "c", "e", " ", "r", "o", "o", "t">>)
    @@ (<<"U+677E", "U+679C">> :> <<"p", "i", "n", "e", " ", "c", "o", "n", "e">>)
    @@ (<<"U+6849", "U+6811", "U+679C">> :> <<"e", "u", "c", "a", "l", "y", "p", "t", "u", "s", " ", "p", "o", "d">>)
    @@ (<<"U+4E94", "U+773C", "U+679C">> :> <<"f", "i", "v", "e", "-", "e", "y", "e", " ", "f", "r", "u", "i", "t">>)
    @@ (<<"U+767D", "U+4E94", "U+773C", "U+679C">> :> <<"w", "h", "i", "t", "e", " ", "f", "i", "v", "e", "-", "e", "y", "e", " ", "f", "r", "u", "i", "t">>)
    @@ (<<"U+9ED1", "U+4E94", "U+773C", "U+679C">> :> <<"b", "l", "a", "c", "k", " ", "f", "i", "v", "e", "-", "e", "y", "e", " ", "f", "r", "u", "i", "t">>)
    @@ (<<"U+677E", "U+9488">> :> <<"p", "i", "n", "e", " ", "n", "e", "e", "d", "l", "e">>)
    @@ (<<"U+94F6", "U+674F", "U+53F6">> :> <<"g", "i", "n", "k", "g", "o", " ", "l", "e", "a", "f">>)
    @@ (<<"U+67AB", "U+53F6">> :> <<"m", "a", "p", "l", "e", " ", "l", "e", "a", "f">>)
    @@ (<<"U+6811", "U+8102">> :> <<"r", "e", "s", "i", "n">>)
    @@ (<<"U+5408", "U+91D1">> :> <<"a", "l", "l", "o", "y">>)
    @@ (<<"U+91D1", "U+5C5E">> :> <<"m", "e", "t", "a", "l">>)
    @@ (<<"U+94F6">> :> <<"s", "i", "l", "v", "e", "r">>)
    @@ (<<"U+91D1">> :> <<"g", "o", "l", "d">>)
    @@ (<<"U+94DC">> :> <<"c", "o", "p", "p", "e", "r">>)

translate_material(chinese_name) ==
    LET stripped == strip(chinese_name)
    IN IF stripped \in DOMAIN MATERIALS_MAPPING
       THEN MATERIALS_MAPPING[stripped] ELSE stripped

\* str.lstrip()
RECURSIVE lstrip(_)
lstrip(str) ==
    IF str # <<>> /\ str[1] \in Whitespace THEN lstrip(Tail(str)) ELSE str

\* re.sub(r'\s+', ' ', title): every run of whitespace becomes one space.
RECURSIVE CollapseWhitespace(_)
CollapseWhitespace(str) ==
    IF str = <<>> THEN <<>>
    ELSE IF str[1] \in Whitespace THEN <<" ">> \o CollapseWhitespace(lstrip(str))
    ELSE <<str[1]>> \o CollapseWhitespace(Tail(str))

clean_title(title) ==
    IF ~Truthy(title) THEN <<>>
    ELSE LET t == strip(CollapseWhitespace(title.val))
         IN IF t # <<>>
            THEN (IF Len(t) > 1 THEN upper(<<t[1]>>) \o Tail(t) ELSE upper(t))
            ELSE t

max_count == 13

Range(seq) == {seq[i] : i \in DOMAIN seq}

\* The loop of clean_tags from tags[i] on, with cleaned (and seen) so far.
RECURSIVE CleanTagsFrom(_, _, _, _)
CleanTagsFrom(tags, i, cleaned, limit) ==
    IF i > Len(tags) THEN cleaned
    ELSE LET tag == lower(strip(tags[i]))
         IN IF tag # <<>> /\ tag \notin Range(cleaned)
            THEN (IF Len(cleaned) + 1 >= limit
                  THEN Append(cleaned, tag)
                  ELSE CleanTagsFrom(tags, i + 1, Append(cleaned, tag), limit))
            ELSE CleanTagsFrom(tags, i + 1, cleaned, limit)

\* A variant of clean_tags that remembers the tags it has seen as they were
\* before lower-casing.
RECURSIVE CleanTagsSeenRaw(_, _, _, _, _)
CleanTagsSeenRaw(tags, i, cleaned, seen, limit) ==
    IF i > Len(tags) THEN cleaned
    ELSE LET tag == strip(tags[i])
         IN IF tag # <<>> /\ tag \notin seen
            THEN (IF Len(cleaned) + 1 >= limit
                  THEN Append(cleaned, lower(tag))
                  ELSE CleanTagsSeenRaw(tags, i + 1, Append(cleaned, lower(tag)),
                                        seen \cup {tag}, limit))
            ELSE CleanTagsSeenRaw(tags, i + 1, cleaned, seen, limit)
clean_tags_seen_raw(tags, limit) ==
    IF ~Truthy(tags) THEN <<>> ELSE CleanTagsSeenRaw(tags.val, 1, <<>>, {}, limit)
\* A variant that truncates the list before it cleans it.
clean_tags_truncate_first(tags, limit) ==
    IF ~Truthy(tags) THEN <<>>
    ELSE CleanTagsFrom(SubSeq(tags.val, 1, IF Len(tags.val) < limit THEN Len(tags.val) ELSE limit),
                       1, <<>>, limit)

clean_tags(tags, limit) ==
    IF ~Truthy(tags) THEN <<>> ELSE CleanTagsFrom(tags.val, 1, <<>>, limit)

\* re.split(r'[-,\s]+', str): the pieces between the runs of separators, the
\* empty piece before a leading run and after a trailing one included.
MaterialSeparators == {"-", ","} \cup Whitespace
RECURSIVE SkipSeparators(_)
SkipSeparators(str) ==
    IF str # <<>> /\ str[1] \in MaterialSeparators THEN SkipSeparators(Tail(str)) ELSE str
RECURSIVE re_split(_)
re_split(str) ==
    LET seps == {i \in DOMAIN str : str[i] \in MaterialSeparators}
    IN IF seps = {} THEN <<str>>
       ELSE LET i == SetMin(seps)
            IN <<SubSeq(str, 1, i - 1)>>
               \o re_split(SkipSeparators(SubSeq(str, i, Len(str))))

\* lines 97-102: the AI materials, each non-empty one stripped and translated
AiMaterials(materials) ==
    {translate_material(strip(materials[i])) :
        i \in {j \in DOMAIN materials : materials[j] # <<>>}}
\* lines 105-112: the materials of the folder name
FolderMaterials(raw_materials_str) ==
    IF raw_materials_str = <<>> THEN {}
    ELSE LET raw_materials == re_split(raw_materials_str)
         IN {translate_material(strip(raw_materials[i])) :
                i \in {j \in DOMAIN raw_materials : strip(raw_materials[j]) # <<>>}}

clean_materials(materials, folder_ctx) ==
    sorted(AiMaterials(materials.val) \cup FolderMaterials(folder_ctx.raw_materials_str))

\* care_instructions.strip(): the fixed block, one element standing for its text.
care_instructions == <<"Care Instructions: [...] Handle with care as botanical materials are delicate">>

\* "\n\n".join(parts) with parts the trimmed description, when the value is
\* truthy, and the care instructions.
build_description(ai_description, folder_ctx) ==
    IF Truthy(ai_description)
    THEN strip(ai_description.val) \o <<"\n", "\n">> \o care_instructions
    ELSE care_instructions

\* FolderContext, the fields normalize_product reads.
FolderContext(folder_name, product_type, raw_materials_str, series, price_from_name) ==
    [folder_name |-> folder_name, product_type |-> product_type,
     raw_materials_str |-> raw_materials_str, series |-> series,
     price_from_name |-> price_from_name]
NoContext == FolderContext(<<>>, <<>>, <<>>, <<>>, NoPrice)

\* pipeline/processor.py build_folder_context, steps 3 and 5: the context of
\* a folder that has an image, from its name.
build_folder_context(folder_name) ==
    LET p == processor_parse_folder_name(folder_name)
    IN FolderContext(folder_name, p.product_type, p.materials, p.series, p.price)

\* A variant of the price merge that takes the AI price whenever it is a number.
MergedPriceAiWhenPresent(ai_price, price_from_name) ==
    IF ai_price.kind = "num" THEN Price(ai_price.num, ai_price.scale)
    ELSE IF price_from_name.some /\ price_from_name.num # 0 THEN price_from_name
    ELSE Price(0, 0)

\* lines 159-161: price = ai_json.get("price"); if it is None or <= 0 it is
\* folder_ctx.price_from_name or 0.0 (None and 0.0 both give 0.0).
MergedPrice(ai_price, price_from_name) ==
    IF ai_price.kind # "num" \/ ai_price.num <= 0
    THEN (IF price_from_name.some /\ price_from_name.num # 0
          THEN price_from_name ELSE Price(0, 0))
    ELSE Price(ai_price.num, ai_price.scale)

\* The ProductDraft normalize_product returns, or the exception it raises.
\* Of the fields of ProductDraft the record has price, title, description,
\* short_description, tags and materials.
ProductDraft(price, title, description, short_description, tags, materials) ==
    [raised |-> "none", price |-> price, title |-> title,
     description |-> description, short_description |-> short_description,
     tags |-> tags, materials |-> materials]
NormalizeRaised(e) ==
    [raised |-> e, price |-> Price(0, 0), title |-> <<>>, description |-> <<>>,
     short_description |-> <<>>, tags |-> <<>>, materials |-> <<>>]

\* normalize_product: None has no strip() (line 174) and cannot be iterated
\* (line 97).
normalize_product(ai_json, folder_ctx) ==
    LET price == MergedPrice(ai_json.price, folder_ctx.price_from_name)
        cleaned == clean_title(GetOr(ai_json.title, Str(<<>>)))
        title == IF cleaned = <<>> THEN folder_ctx.folder_name ELSE cleaned
        description == build_description(GetOr(ai_json.description, Str(<<>>)), folder_ctx)
        short_raw == GetOr(ai_json.short_description, Str(<<>>))
        short_description ==
            IF strip(short_raw.val) = <<>> THEN title ELSE strip(short_raw.val)
        tags == clean_tags(GetOr(ai_json.tags, List(<<>>)), max_count)
        materials_raw == GetOr(ai_json.materials, List(<<>>))
    IN IF short_raw.kind = "null" THEN NormalizeRaised("AttributeError")
       ELSE IF materials_raw.kind = "null" THEN NormalizeRaised("TypeError")
       ELSE ProductDraft(price, title, description, short_description, tags,
                         clean_materials(materials_raw, folder_ctx))

----------------------------------------------------------------------------
(* SpecNorm: build_folder_context and normalize_product over bounded inputs *)

MaxTitleLen == 3     \* length of the AI titles
MaxDescLen == 2      \* length of the AI descriptions
MaxTags == 3         \* length of the short AI tag lists
MaxLongTags == 15    \* length of the long AI tag lists
MaxMats == 2         \* length of the AI materials lists

StringsOver(chars, n) == UNION {[1..k -> chars] : k \in 0..n}

\* Folder names: with and without a price, the price positive, zero and
\* negative, the materials plain, translated, in two cases and several.
NormNames == {<<>>,
              <<"a">>,
              <<"a", "-", "b">>,
              <<"a", "-", "r", "e", "s", "i", "n", "-", "b", "_", "2">>,
              <<"a", "-", "U+6811", "U+8102", ",", "R", "e", "s", "i", "n", "-", "b", "_", "-", "2">>,
              <<"a", "-", "r", "e", "s", "i", "n", " ", "s", "i", "l", "v", "e", "r", "-", "b", "_", "0">>,
              <<"a", "-", "U+94F6", "-", "b", "_", "0", ".", "2">>,
              <<"B", " ", "a", "-", "r", "e", "s", "i", "n", "-", "r", "e", "s", "i", "n", "_", "x">>}

AiPrices == {AbsentPrice, NullPrice, Num(0 - 2, 0), Num(0, 0), Num(2, 0), Num(2, 1), Num(20, 0)}
AiTitles ==
    {Absent, Null} \cup {Str(s) : s \in StringsOver({"a", "B", " ", "\n"}, MaxTitleLen)}
AiShorts == {Absent, Null} \cup {Str(s) : s \in {<<>>, <<" ">>, <<"a">>, <<" ", "a", "\n">>, <<"a", " ", "b">>}}
AiDescriptions ==
    {Absent, Null} \cup {Str(s) : s \in StringsOver({"a", " ", "\n"}, MaxDescLen)}

\* Tag lists: every short list of tags needing a trim, a lower-casing or a
\* removal, and long lists of distinct tags, plain, led by a tag that a later
\* one repeats in another case, or led by a blank tag.
RawTags == {<<"a">>, <<"A">>, <<" ", "a", " ">>, <<"b">>, <<>>, <<" ">>}
DistinctTags(n) == [i \in 1..n |-> <<LowerLetters[i]>>]
LongTagLists ==
    UNION {{DistinctTags(n), <<<<"A">>>> \o DistinctTags(n), <<<<" ">>>> \o DistinctTags(n)} :
              n \in (MaxLongTags - 4)..MaxLongTags}
AiTags ==
    {Absent, Null}
    \cup {List(l) : l \in UNION {[1..k -> RawTags] : k \in 0..MaxTags}}
    \cup {List(l) : l \in LongTagLists}

RawMaterials == {<<"r", "e", "s", "i", "n">>, <<"R", "e", "s", "i", "n">>, <<" ", "r", "e", "s", "i", "n">>, <<"U+6811", "U+8102">>, <<"U+94F6">>, <<"s", "i", "l", "v", "e", "r">>, <<>>, <<" ">>}
AiMaterialLists ==
    {Absent, Null} \cup {List(l) : l \in UNION {[1..k -> RawMaterials] : k \in 0..MaxMats}}

AiJson(price, title, description, short_description, tags, materials) ==
    [price |-> price, title |-> title, description |-> description,
     short_description |-> short_description, tags |-> tags, materials |-> materials]
\* The AI answers: the fields that normalize_product combines vary together
\* (title with short_description), the others one at a time.
AiJsons ==
    {AiJson(p, Absent, Absent, Absent, Absent, Absent) : p \in AiPrices}
    \cup {AiJson(AbsentPrice, t, Absent, s, Absent, Absent) : t \in AiTitles, s \in AiShorts}
    \cup {AiJson(AbsentPrice, Absent, d, Absent, Absent, Absent) : d \in AiDescriptions}
    \cup {AiJson(AbsentPrice, Absent, Absent, Absent, g, Absent) : g \in AiTags}
    \cup {AiJson(AbsentPrice, Absent, Absent, Absent, Absent, m) : m \in AiMaterialLists}

NormStart(folder_name, ai_json) ==
    /\ norm_name = folder_name
    /\ ai_data = ai_json
    /\ ctx = NoContext
    /\ npc = "new"
    /\ product = NormalizeRaised("none")
    /\ tags_again = <<>>
NormInit == \E folder_name \in NormNames, ai_json \in AiJsons : NormStart(folder_name, ai_json)

\* process_new_folders_debug, line 219: ctx, main_image_path = build_folder_context(...)
BuildContext ==
    /\ npc = "new"
    /\ ctx' = build_folder_context(norm_name)
    /\ npc' = "ctx"
    /\ UNCHANGED <<norm_name, ai_data, product, tags_again>>
    /\ UNCHANGED <<pipeVars, loadVars, parseVars, moreVars>>

\* process_new_folders_debug, line 246: final_product = normalize_product(ai_data, ctx)
Normalize ==
    /\ npc = "ctx"
    /\ product' = normalize_product(ai_data, ctx)
    /\ npc' = "done"
    /\ UNCHANGED <<norm_name, ai_data, ctx, tags_again>>
    /\ UNCHANGED <<pipeVars, loadVars, parseVars, moreVars>>

\* clean_tags applied to the tags of the product.
CleanAgain ==
    /\ npc = "done"
    /\ product.raised = "none"
    /\ tags_again' = clean_tags(List(product.tags), max_count)
    /\ npc' = "again"
    /\ UNCHANGED <<norm_name, ai_data, ctx, product>>
    /\ UNCHANGED <<pipeVars, loadVars, parseVars, moreVars>>

NormNext == BuildContext \/ Normalize \/ CleanAgain

----------------------------------------------------------------------------
(* core/etsy_exporter.py *)

\* The number of image columns: image_files[:10], while len(image_names) < 10,
\* for i in range(10).
ImageColumns == 10

\* A Drive file dict, by its "name" key (Absent when the dict has none).
ImageFile(file_name) == [name |-> file_name]
\* A ProductDraft, by the fields the image columns and the SKU are read from.
Draft(id, image_paths) == [id |-> id, image_paths |-> image_paths]
\* One element of products: the tuple (product, image_files); image_files is
\* None or a list.
Pair(draft, image_files) == [product |-> draft, image_files |-> image_files]

\* seq[:n]
Slice(seq, n) == SubSeq(seq, 1, IF Len(seq) < n THEN Len(seq) ELSE n)

\* Path(img_path).name for "/"-separated paths without "." segments: the last
\* non-empty segment, "" when there is none.
PathName(img_path) ==
    LET segments == SelectSeq(split(img_path, "/"), LAMBDA seg : seg # <<>>)
    IN IF segments = <<>> THEN <<>> ELSE segments[Len(segments)]

\* product_to_etsy_row, lines 25-34: image_names before the padding.
image_names_paths_first(draft, image_files) ==
    IF draft.image_paths # <<>>
    THEN [i \in DOMAIN Slice(draft.image_paths, ImageColumns) |->
             IF PathName(draft.image_paths[i]) # <<>>
             THEN PathName(draft.image_paths[i]) ELSE draft.image_paths[i]]
    ELSE IF Truthy(image_files)
    THEN [i \in DOMAIN Slice(image_files.val, ImageColumns) |->
             GetOr(image_files.val[i].name, Str(<<>>)).val]
    ELSE <<>>
image_names(draft, image_files) ==
    IF Truthy(image_files)
    THEN [i \in DOMAIN Slice(image_files.val, ImageColumns) |->
             GetOr(image_files.val[i].name, Str(<<>>)).val]
    ELSE IF draft.image_paths # <<>>
    THEN [i \in DOMAIN Slice(draft.image_paths, ImageColumns) |->
             IF PathName(draft.image_paths[i]) # <<>>
             THEN PathName(draft.image_paths[i]) ELSE draft.image_paths[i]]
    ELSE <<>>

\* product_to_etsy_row, lines 37-38: while len(image_names) < 10: append("").
PadNames(names) ==
    names \o [i \in 1..(IF Len(names) < ImageColumns THEN ImageColumns - Len(names) ELSE 0) |-> <<>>]

\* product_to_etsy_row: the row, by its SKU and its columns image_1..image_10
\* (image |-> the tuple of the ten). The other columns are copied from fields
\* of the product and take nothing from either list of images.
product_to_etsy_row(draft, image_files) ==
    LET padded == PadNames(image_names(draft, image_files))
    IN [SKU |-> draft.id,
        image |-> [i \in 1..ImageColumns |->
                      IF i <= Len(padded) THEN padded[i] ELSE <<>>]]

\* export_products_to_csv, lines 80-81 and 120-122: ValueError for an empty
\* list, else one writer.writerow(product_to_etsy_row(...)) per pair.
ExportResult(raised, written) == [raised |-> raised, rows |-> written]
ExportCsv(pairs) ==
    IF pairs = <<>>
    THEN ExportResult("ValueError", <<>>)
    ELSE ExportResult("none",
             [i \in DOMAIN pairs |->
                 product_to_etsy_row(pairs[i].product, pairs[i].image_files)])

----------------------------------------------------------------------------
(* SpecExport: export_products_to_csv applied to bounded lists of pairs *)

MaxImages == 11      \* image files of one folder: 0..MaxImages
MaxPairs == 2        \* pairs in one export: 0..MaxPairs

\* The name of the j-th image file of a folder, and the j-th local path.
ImageNameOf(j) == <<"i", ToString(j)>>
ImagePathOf(j) == <<"d", "/", "p", ToString(j)>>

\* The numbers of image files: few, and around the number of columns.
ImageCounts == (0..2) \cup ((ImageColumns - 1)..MaxImages)
\* image_files: None, k files with distinct names for k in ImageCounts, and
\* two files of which the first has no "name" key.
ImageLists ==
    {Null}
    \cup {List([j \in 1..k |-> ImageFile(Str(ImageNameOf(j)))]) : k \in ImageCounts}
    \cup {List(<<ImageFile(Absent), ImageFile(Str(ImageNameOf(2)))>>)}
\* product.image_paths: empty as normalize_product leaves it, a path without
\* a name, paths with and without directories, and MaxImages paths.
PathLists ==
    {<<>>,
     << <<"/">> >>,
     << <<"d", "/", "a">>, <<"b", "/">> >>,
     [j \in 1..MaxImages |-> ImagePathOf(j)]}
\* The pairs: every image list with a product without paths, and the lists
\* with at most one file with every product.
ExportPairs ==
    {Pair(Draft(id, <<>>), l) : id \in Ids, l \in ImageLists}
    \cup {Pair(Draft(id, paths), l) :
             id \in Ids, paths \in PathLists,
             l \in {Null, List(<<>>), List(<<ImageFile(Str(ImageNameOf(1)))>>)}}
ExportInputs(n) == UNION {[1..k -> ExportPairs] : k \in 0..n}

ExportStart(pairs) ==
    /\ export_in = pairs
    /\ xpc = "new"
    /\ csv_rows = <<>>
ExportInit == \E pairs \in ExportInputs(MaxPairs) : ExportStart(pairs)

\* export_products_to_csv(products_for_export, csv_path)
Export ==
    /\ xpc = "new"
    /\ csv_rows' = ExportCsv(export_in).rows
    /\ xpc' = IF ExportCsv(export_in).raised = "none" THEN "done" ELSE "raised"
    /\ UNCHANGED export_in
    /\ UNCHANGED <<pipeVars, loadVars, parseVars, normVars, fetchVars, raceVars>>

ExportNext == Export

----------------------------------------------------------------------------
(* pipeline/processor.py: classify_files and the files of build_folder_context *)

\* A file dict of files().list(): its id, and its "name" and "mimeType" keys
\* (Absent when the dict has none).
DriveFile(id, file_name, mimeType) == [id |-> id, name |-> file_name, mimeType |-> mimeType]

\* str.startswith(prefix)
startswith(str, prefix) ==
    Len(str) >= Len(prefix) /\ SubSeq(str, 1, Len(prefix)) = prefix

\* classify_files: images are the files whose mimeType starts with "image/",
\* others the rest, both in the order of files.
classify_files(files) ==
    [images |-> SelectSeq(files, LAMBDA f :
                    startswith(GetOr(f.mimeType, Str(<<>>)).val, <<"i", "m", "a", "g", "e", "/">>)),
     others |-> SelectSeq(files, LAMBDA f :
                    ~startswith(GetOr(f.mimeType, Str(<<>>)).val, <<"i", "m", "a", "g", "e", "/">>))]

\* build_folder_context, line 148: f.get("name", "").lower() in [...]
NoteNames == {<<"n", "o", "t", "e", ".", "t", "x", "t">>,
              <<"n", "o", "t", "e", "s", ".", "t", "x", "t">>,
              <<"n", "o", "t", "e">>}
IsNoteFile(f) == lower(GetOr(f.name, Str(<<>>)).val) \in NoteNames

\* build_folder_context, lines 147-158: the files of other_files the loop
\* downloads; it breaks after the first note file.
NotesToDownloadAll(other_files) == SelectSeq(other_files, IsNoteFile)
NotesToDownload(other_files) ==
    IF SelectSeq(other_files, IsNoteFile) = <<>> THEN <<>>
    ELSE <<SelectSeq(other_files, IsNoteFile)[1]>>

\* How one call of build_folder_context ends: the exception it raised or
\* "none", the ids drive.download_file was called with and returned for, in
\* order, and the image_files and note_file of the context it returned.
Fetched(raised, downloads, image_files, note_file) ==
    [raised |-> raised, downloads |-> downloads, image_files |-> image_files,
     note_file |-> note_file]
NotFetched == Fetched("none", <<>>, <<>>, <<>>)

\* build_folder_context, lines 115-158 and 169-170, over the files listed;
\* failing names the drive.download_file call that raises ("image", "note"),
\* "none" when the downloads succeed.
\*   line 117: nothing listed -> RuntimeError
\*   line 124: no image       -> RuntimeError
\*   line 139: main_image_file['name'] of a file without a name -> KeyError
\*   line 140: the main image is downloaded
\*   line 152: the first note file among the others is downloaded
FetchFiles(files, failing) ==
    LET image_files == classify_files(files).images
        other_files == classify_files(files).others
        notes == NotesToDownload(other_files)
        ids(fs) == [i \in DOMAIN fs |-> fs[i].id]
    IN IF files = <<>> THEN Fetched("RuntimeError: no files", <<>>, <<>>, <<>>)
       ELSE IF image_files = <<>> THEN Fetched("RuntimeError: no images", <<>>, <<>>, <<>>)
       ELSE IF image_files[1].name.kind = "absent" THEN Fetched("KeyError", <<>>, <<>>, <<>>)
       ELSE IF failing = "image" THEN Fetched("download error", <<>>, <<>>, <<>>)
       ELSE IF failing = "note" /\ notes # <<>>
            THEN Fetched("download error", <<image_files[1].id>>, <<>>, <<>>)
       ELSE Fetched("none", <<image_files[1].id>> \o ids(notes), image_files,
                    SubSeq(notes, 1, IF notes = <<>> THEN 0 ELSE 1))

----------------------------------------------------------------------------
(* SpecFetch: build_folder_context over bounded file listings *)

MaxFiles == 3        \* files one folder lists: 0..MaxFiles

\* The kinds of file a folder lists: images (one named like a note, one with
\* no name), a type that differs from image/ by case only, note files in
\* three spellings and two cases, other files, a file with no mimeType.
ImagePng == Str(<<"i", "m", "a", "g", "e", "/", "p", "n", "g">>)
TextPlain == Str(<<"t", "e", "x", "t", "/", "p", "l", "a", "i", "n">>)
FileKinds ==
    {[name |-> Str(<<"a", ".", "j", "p", "g">>), mimeType |-> ImagePng],
     [name |-> Str(<<"n", "o", "t", "e">>), mimeType |-> ImagePng],
     [name |-> Absent, mimeType |-> ImagePng],
     [name |-> Str(<<"b", ".", "j", "p", "g">>),
      mimeType |-> Str(<<"I", "m", "a", "g", "e", "/", "p", "n", "g">>)],
     [name |-> Str(<<"n", "o", "t", "e", ".", "t", "x", "t">>), mimeType |-> TextPlain],
     [name |-> Str(<<"N", "o", "t", "e", "s", ".", "T", "X", "T">>), mimeType |-> TextPlain],
     [name |-> Str(<<"n", "o", "t", "e">>), mimeType |-> Absent],
     [name |-> Str(<<"n", "o", "t", "e", "s">>), mimeType |-> TextPlain],
     [name |-> Absent, mimeType |-> TextPlain]}
\* The listings: the files take their ids from their place in the listing.
Listings(n) ==
    {[i \in DOMAIN kinds |-> DriveFile(i, kinds[i].name, kinds[i].mimeType)] :
        kinds \in UNION {[1..k -> FileKinds] : k \in 0..n}}

FetchStart(files) ==
    /\ folder_files = files
    /\ fpc = "new"
    /\ fetched = NotFetched
FetchInit == \E files \in Listings(MaxFiles) : FetchStart(files)

\* process_new_folders_debug, line 219: build_folder_context(folder_meta, drive)
FetchContext(failing) ==
    /\ fpc = "new"
    /\ fetched' = FetchFiles(folder_files, failing)
    /\ fpc' = "done"
    /\ UNCHANGED folder_files
    /\ UNCHANGED <<pipeVars, loadVars, parseVars, normVars, exportVars, raceVars>>

FetchNext == \E failing \in {"none", "image", "note"} : FetchContext(failing)

----------------------------------------------------------------------------
(* SpecRace: two processes, each with its own StateStore over one state file *)

MaxWrites == 2       \* mark_folder_status calls of the two processes together

Processes == {"A", "B"}

\* A process before it constructs its StateStore, and after.
NoStore == [open |-> FALSE, state |-> EmptyState]
OpenStore(state) == [open |-> TRUE, state |-> state]
\* History of a call that wrote: the process, the folder id and the record.
Write(process, folder_id, rec) == [process |-> process, id |-> folder_id, rec |-> rec]

RaceStart(file) ==
    /\ shared_doc = file
    /\ store_of = [q \in Processes |-> NoStore]
    /\ loaded_at = [q \in Processes |-> 0]
    /\ loaded_doc = file
    /\ writes = <<>>
RaceInit == \E file \in WellFormedDocs : RaceStart(file)

\* StateStore(path): __init__ calls _load once; the store never reads the
\* file again.
RaceOpen(process) ==
    /\ ~store_of[process].open
    /\ store_of' = [store_of EXCEPT ![process] = OpenStore(_load(shared_doc))]
    /\ loaded_at' = [loaded_at EXCEPT ![process] = Len(writes)]
    /\ UNCHANGED <<shared_doc, loaded_doc, writes>>
    /\ UNCHANGED <<pipeVars, loadVars, parseVars, normVars, exportVars, fetchVars>>

\* mark_folder_status on the process's store: the record is put into its
\* _state and _save writes that _state over the file. The write of one call is
\* taken as a whole.
RaceMark(process, id, nm, status, platforms) ==
    /\ store_of[process].open
    /\ Len(writes) < MaxWrites
    /\ LET r == mark_folder_status(store_of[process].state, shared_doc, id, nm,
                                   status, platforms)
       IN /\ ~r.raised
          /\ store_of' = [store_of EXCEPT ![process] = OpenStore(r.state)]
          /\ shared_doc' = r.file
    /\ writes' = Append(writes, Write(process, id, NewRecord(nm, status, platforms)))
    /\ UNCHANGED <<loaded_at, loaded_doc>>
    /\ UNCHANGED <<pipeVars, loadVars, parseVars, normVars, exportVars, fetchVars>>

RaceNext ==
    \/ \E process \in Processes : RaceOpen(process)
    \/ \E process \in Processes, id \in Ids : \E a \in OpArgs(id) :
           RaceMark(process, id, a.name, a.status, a.platforms)

----------------------------------------------------------------------------
(* The specifications *)

\* Each specification leaves the variables of the others at rest.
PipeIdle == PipeStart(AbsentFile)
LoadIdle == LoadStart(AbsentFile)
ParseIdle == ParseStart(RawForm(<<>>))
NormIdle == NormStart(<<>>, AiJson(AbsentPrice, Absent, Absent, Absent, Absent, Absent))
ExportIdle == ExportStart(<<>>)
FetchIdle == FetchStart(<<>>)
RaceIdle == RaceStart(AbsentFile)
MoreIdle == ExportIdle /\ FetchIdle /\ RaceIdle

Init == LoadIdle /\ ParseIdle /\ NormIdle /\ PipeInit /\ MoreIdle
Next == PipeNext
Spec == Init /\ [][Next]_vars

InitLoad == PipeIdle /\ ParseIdle /\ NormIdle /\ LoadInit /\ MoreIdle
SpecLoad == InitLoad /\ [][LoadNext]_vars

InitParse == PipeIdle /\ LoadIdle /\ NormIdle /\ ParseInit /\ MoreIdle
SpecParse == InitParse /\ [][ParseNext]_vars

InitNorm == PipeIdle /\ LoadIdle /\ ParseIdle /\ NormInit /\ MoreIdle
SpecNorm == InitNorm /\ [][NormNext]_vars

InitExport == PipeIdle /\ LoadIdle /\ ParseIdle /\ NormIdle /\ FetchIdle /\ RaceIdle /\ ExportInit
SpecExport == InitExport /\ [][ExportNext]_vars

InitFetch == PipeIdle /\ LoadIdle /\ ParseIdle /\ NormIdle /\ ExportIdle /\ RaceIdle /\ FetchInit
SpecFetch == InitFetch /\ [][FetchNext]_vars

InitRace == PipeIdle /\ LoadIdle /\ ParseIdle /\ NormIdle /\ ExportIdle /\ FetchIdle /\ RaceInit
SpecRace == InitRace /\ [][RaceNext]_vars

----------------------------------------------------------------------------
(* Claims about the pipeline (Spec) *)

\* What the file holds, read off the document itself.
RecordedIds(file) ==
    IF file.kind = "object" /\ file.hasFolders /\ file.fkind = "map"
    THEN Keys(file.folders) ELSE {}
StatusIn(file, id) ==
    IF id \in RecordedIds(file) THEN Get(file.folders, id).status ELSE "no record"
ExtraIn(file, id) ==
    IF id \in RecordedIds(file) THEN Get(file.folders, id).extra ELSE {}
StoreOf(s) == IF s = "main" THEN state_main ELSE state_op

\* C1, as claimed: when a run has ended, every folder the processor handled
\* has its record updated in the document, "success" if it was collected for
\* export and "failed" if its processing raised; none is left "pending".
C1_HandledFoldersAreMarked ==
    pc = "done" =>
        \A i \in DOMAIN outcomes :
            StatusIn(doc, outcomes[i].id) =
                (IF outcomes[i].result = "ok" THEN "success" ELSE "failed")

\* C2: the result of find_new_product_folders holds exactly the listed
\* folders whose id has no record in the document, whatever the status of the
\* recorded ones, in the order of the listing.
C2_NewFoldersAreTheUnrecorded ==
    (pc = "mark" /\ mi = 0) =>
        /\ all_folders = list_subfolders(drive)
        /\ \A i \in DOMAIN new_folders :
              /\ new_folders[i].id \notin RecordedIds(doc)
              /\ \E j \in DOMAIN all_folders : all_folders[j] = new_folders[i]
        /\ \A j \in DOMAIN all_folders :
              all_folders[j].id \notin RecordedIds(doc) =>
                  \E i \in DOMAIN new_folders : new_folders[i] = all_folders[j]
        /\ \A i, k \in DOMAIN new_folders :
              i < k => \E j, l \in DOMAIN all_folders :
                          /\ j < l
                          /\ all_folders[j] = new_folders[i]
                          /\ all_folders[l] = new_folders[k]

\* C2 witness: discovery has returned some folders and left out a listed one
\* whose record is "failed".
C2_Witness ==
    /\ pc = "mark" /\ mi = 0
    /\ new_folders # <<>>
    /\ \E j \in DOMAIN all_folders :
          /\ StatusIn(doc, all_folders[j].id) = "failed"
          /\ \A i \in DOMAIN new_folders : new_folders[i].id # all_folders[j].id

\* The ids of a sequence of entries, in order.
IdsOf(entries) == [i \in DOMAIN entries |-> entries[i].id]
PendingIn(file) == {id \in RecordedIds(file) : StatusIn(file, id) = "pending"}
Succeeded(hist) == SelectSeq(hist, LAMBDA h : h.result = "ok")

\* C3: an error in one folder is caught at that folder: while the loop runs
\* the folders handled are the records before pi, each once, and when the
\* processor has ended every folder that was pending when it started has been
\* handled exactly once, in order, and the export holds one row for each
\* folder that succeeded.
C3_ErrorsDoNotAbortBatch ==
    /\ pc = "loop" => IdsOf(outcomes) = IdsOf(SubSeq(pending_records, 1, pi - 1))
    /\ (pc = "done" /\ pending_records # <<>>) =>
          /\ IdsOf(outcomes) = IdsOf(pending_records)
          /\ \A i, k \in DOMAIN outcomes : i # k => outcomes[i].id # outcomes[k].id
          /\ {outcomes[i].id : i \in DOMAIN outcomes} = PendingIn(docAtProc)
          /\ Len(exported) = Len(Succeeded(outcomes))
          /\ \A i \in DOMAIN exported : exported[i].of = Succeeded(outcomes)[i].id

\* C3 witness: a run has ended in which the first folder failed and a later
\* one succeeded and was exported.
C3_Witness ==
    /\ pc = "done"
    /\ Len(outcomes) >= 2
    /\ outcomes[1].result = "failed"
    /\ outcomes[2].result = "ok"
    /\ exported = <<[of |-> outcomes[2].id]>>

\* C4, as claimed: a folder whose processing failed in an earlier run, and
\* whose status was not reset to "pending" since, is not handled by a later run.
C4_FailedFolderIsNotProcessedAgain ==
    pc = "loop" => \A i \in DOMAIN outcomes : outcomes[i].id \notin failedEarlier

\* The effect C5 claims of a call c on a store (before, after) and the file.
MarkOverwrites(c, before, after, file) ==
    LET written == <<Entry(c.id, Rec(c.name, c.status,
                                     IF c.platforms.given THEN c.platforms.val ELSE {},
                                     {}))>>
    IN /\ get_folder_record(after, c.id).recs = written
       /\ get_folder_record(_load(file), c.id).recs = written
       /\ \A j \in Ids \ {c.id} :
             /\ get_folder_record(after, j) = get_folder_record(before, j)
             /\ get_folder_record(_load(file), j) = get_folder_record(before, j)
       /\ get_processed_folder_ids(after).ids =
              get_processed_folder_ids(before).ids \cup {c.id}
       /\ RecordedIds(file) = get_processed_folder_ids(after).ids

\* C5: mark_folder_status replaces the record of the id by exactly
\* {name, status, platforms or {}} and leaves the store's records of all
\* other ids as they were, in memory and in the saved document.
C5_MarkReplacesRecordWholesale ==
    [][lastCall'.op = "mark" =>
          /\ lastCall'.store = "main" =>
                MarkOverwrites(lastCall', state_main, state_main', doc')
          /\ lastCall'.store = "op" =>
                MarkOverwrites(lastCall', state_op, state_op', doc')
          /\ \A j \in Ids \ {lastCall'.id} :
                /\ StatusIn(doc', j) = StatusIn(doc, j)
                /\ j \in RecordedIds(doc) =>
                      Get(doc'.folders, j) = Get(doc.folders, j)]_vars

\* C5 witness: a call without platforms on a folder whose record held
\* platform data and an unknown key, beside another recorded folder.
C5_Witness ==
    /\ lastCall.op = "mark"
    /\ ~lastCall.platforms.given
    /\ lastCall.prev # <<>>
    /\ lastCall.prev[1].rec.platforms # {}
    /\ Get(doc.folders, lastCall.id).platforms = {}
    /\ RecordedIds(doc) # {lastCall.id}

C8_UnknownKeysAlwaysPreserved ==
    [][\A id \in Ids : ExtraIn(doc, id) \subseteq ExtraIn(doc', id)]_vars

\* C8, amended: such a key stays in the record in the document through
\* loads, queries, saves and calls of mark_folder_status on other ids; a call
\* of mark_folder_status on the folder's own id removes it.
C8_UnknownKeysPreservedUnlessRemarked ==
    [][\A id \in Ids :
          IF lastCall'.op = "mark" /\ lastCall'.id = id
          THEN ExtraIn(doc', id) = {}
          ELSE ExtraIn(doc', id) = ExtraIn(doc, id)]_vars

\* C8 witness: after a call on another id the record still holds the key.
C8_Witness ==
    /\ lastCall.op = "mark"
    /\ \E id \in Ids : id # lastCall.id /\ ExtraIn(doc, id) # {}

----------------------------------------------------------------------------
(* Claims about loading (SpecLoad) *)

\* C7, as claimed: over a file that is not a well-formed state document the
\* constructed store is the empty mapping and no query raises: no ids, no
\* record for any id, nothing unfinished.
C7_MalformedFileGivesEmptyStore ==
    (lpc = "ready" /\ ldoc \in MalformedFiles) =>
        /\ lstate = EmptyState
        /\ ~qres.res.raised
        /\ qres.res.ids = {}
        /\ qres.res.recs = <<>>

----------------------------------------------------------------------------
(* Claims about parse_folder_name (SpecParse) *)

\* The tuple C9 expects for a name built from type, materials, series, price.
ExpectedOf(f) ==
    ParseResult(f.type, join(f.materials, "-"), f.series, FloatValue(f.price))

\* A token no strip() changes: not empty, no whitespace at either end.
Trimmed(token) == token # <<>> /\ strip(token) = token

\* C9, as claimed: for a name type-materials-series_price whose type and
\* series are non-empty tokens without hyphen or underscore, whose materials
\* are non-empty parts joined by hyphens, and whose price is a numeric
\* string, the parser returns exactly type, materials, series and the value
\* of price.
C9_BuiltNameParsesToItsParts ==
    (ppc = "done" /\ form.kind = "built") => parsed = ExpectedOf(form)

\* C9, amended: the same, for names whose type, series and every part of the
\* materials also carry no whitespace at either end.
C9_TrimmedPartsParseExactly ==
    (/\ ppc = "done"
     /\ form.kind = "built"
     /\ Trimmed(form.type)
     /\ Trimmed(form.series)
     /\ \A i \in DOMAIN form.materials : Trimmed(form.materials[i]))
        => parsed = ExpectedOf(form)

\* C9 witness: a name with two material parts and a fractional price has
\* been parsed into its four components.
C9_Witness ==
    /\ ppc = "done"
    /\ form.kind = "built"
    /\ Len(form.materials) = 2
    /\ \A i \in DOMAIN form.materials : Trimmed(form.materials[i])
    /\ Trimmed(form.type) /\ Trimmed(form.series)
    /\ form.price = <<"2", ".", "2">>
    /\ parsed.raised = "none"
    /\ parsed.materials = form.materials[1] \o <<"-">> \o form.materials[2]
    /\ parsed.price = Price(22, 1)

\* C10, as claimed: parse_folder_name raises no exception, whatever the name.
C10_ParseNeverRaises ==
    ppc = "done" => parsed.raised = "none"

\* The text after the last "_" of the name, when there is one.
HasUnderscore(str) == Positions(str, "_") # {}
Suffix(str) == SubSeq(str, SetMax(Positions(str, "_")) + 1, Len(str))

\* C11, as claimed: when the name holds an underscore and the text after the
\* last one is not a number, the price is None and the fields are those of
\* the entire name, suffix included, taken as the left segment; for the
\* parser of core/folder_utils.py and for the one the processor calls.
C11_UnparsedSuffixStaysInLeft ==
    (HasUnderscore(name) /\ ~IsFloat(Suffix(name))) =>
        /\ ppc = "done" => parsed = Dispatch(Parts(name), NoPrice)
        /\ qpc = "done" => proc_parsed = ProcFields(strip(name), NoPrice)

\* The token-count rule, in the words of the specification: one token is the
\* series, two are product_type and materials, three or more are first, the
\* middle ones rejoined with hyphens, and last.
TokenRule(tokens, result) ==
    /\ Len(tokens) = 1 =>
          /\ result.product_type = <<>>
          /\ result.materials = <<>>
          /\ result.series = tokens[1]
    /\ Len(tokens) = 2 =>
          /\ result.product_type = tokens[1]
          /\ result.materials = tokens[2]
          /\ result.series = <<>>
    /\ Len(tokens) >= 3 =>
          /\ result.product_type = tokens[1]
          /\ result.materials = join(SubSeq(tokens, 2, Len(tokens) - 1), "-")
          /\ result.series = tokens[Len(tokens)]

\* C12, as claimed: for every name without an underscore, parse_folder_name
\* of core/folder_utils.py returns, with price None, the fields the
\* token-count rule gives for the hyphen-separated tokens of the whole name
\* that are not empty or whitespace only.
C12_NoUnderscoreSplitsByTokenCount ==
    (ppc = "done" /\ ~HasUnderscore(name)) =>
        /\ parsed.raised = "none"
        /\ parsed.price = NoPrice
        /\ TokenRule(Parts(name), parsed)

----------------------------------------------------------------------------
(* Claims about normalize_product (SpecNorm) *)

Normalized == npc \in {"done", "again"} /\ product.raised = "none"
AiPriceUsable == ai_data.price.kind = "num" /\ ai_data.price.num > 0

\* C13: the price of the product is the AI price when that is present and
\* > 0, otherwise the price parsed from the folder name when the name gave
\* one, otherwise 0.0.
C13_PriceIsAiThenFolderThenZero ==
    Normalized =>
        product.price =
            IF AiPriceUsable THEN Price(ai_data.price.num, ai_data.price.scale)
            ELSE IF ctx.price_from_name.some THEN ctx.price_from_name
            ELSE Price(0, 0)

\* C13's scenario: the AI price is 0 and the folder name gave a positive one.
C13_Witness ==
    /\ Normalized
    /\ ai_data.price = Num(0, 0)
    /\ ctx.price_from_name.some
    /\ ctx.price_from_name.num > 0
    /\ product.price = ctx.price_from_name

\* C14, as claimed: the price of every product is >= 0, whatever the AI
\* price and whatever price the folder name gave.
C14_PriceIsNonNegative ==
    Normalized => product.price.num >= 0

\* The tag list the AI gave, when it gave a list.
GivenTags == IF ai_data.tags.kind = "list" THEN ai_data.tags.val ELSE <<>>
\* Each tag trimmed and in lower case.
TrimmedLower(tags) == [i \in DOMAIN tags |-> lower(strip(tags[i]))]
\* The entries of a list that are not empty and occur at no earlier place.
FirstOccurrences(seq) ==
    LET keep == {i \in DOMAIN seq : seq[i] # <<>> /\ \A j \in 1..(i - 1) : seq[j] # seq[i]}
        F[n \in 0..Len(seq)] ==
            IF n = 0 THEN <<>>
            ELSE IF n \in keep THEN Append(F[n - 1], seq[n]) ELSE F[n - 1]
    IN F[Len(seq)]
FirstN(seq, n) == SubSeq(seq, 1, IF Len(seq) < n THEN Len(seq) ELSE n)
NoRepeat(seq) == \A i, j \in DOMAIN seq : i # j => seq[i] # seq[j]

\* C15: the tags of the product are the trimmed, lower-cased, non-empty tags
\* of the AI list, each at its first occurrence and in that order, cut to the
\* first 13: never more than 13, each in lower case and non-empty, none
\* repeated, and for 15 distinct tags exactly the first 13.
C15_TagsAreFirst13Cleaned ==
    Normalized =>
        /\ product.tags = FirstN(FirstOccurrences(TrimmedLower(GivenTags)), 13)
        /\ Len(product.tags) <= 13
        /\ \A i \in DOMAIN product.tags :
              product.tags[i] # <<>> /\ lower(product.tags[i]) = product.tags[i]
        /\ NoRepeat(product.tags)
        /\ (Len(GivenTags) = 15 /\ NoRepeat(GivenTags)
              /\ FirstOccurrences(TrimmedLower(GivenTags)) = GivenTags)
             => product.tags = SubSeq(GivenTags, 1, 13)

\* A list whose cleaned form has 15 distinct tags, one of them given twice,
\* has been cut to 13.
C15_Witness ==
    /\ Normalized
    /\ Len(GivenTags) = 16
    /\ Len(FirstOccurrences(TrimmedLower(GivenTags))) = 15
    /\ Len(product.tags) = 13
    /\ product.tags[13] = <<"m">>

\* C16: clean_tags applied to the result of clean_tags returns that result.
C16_CleanTagsIsIdempotent ==
    npc = "again" => tags_again = product.tags

\* clean_tags has been applied twice to a list it had to trim, lower-case and
\* shorten.
C16_Witness ==
    /\ npc = "again"
    /\ product.tags # <<>>
    /\ Len(product.tags) < Len(GivenTags)
    /\ product.tags # FirstN(GivenTags, Len(product.tags))

\* Two materials are the same material when their translations are equal up
\* to case.
SameMaterial(a, b) == lower(translate_material(a)) = lower(translate_material(b))

\* C17, as claimed: the materials of the product are sorted ascending and no
\* two entries are the same material (equal without regard to case once
\* translated), for every AI materials list and every folder name.
C17_MaterialsSortedAndDistinct ==
    (Normalized /\ ai_data.materials.kind # "null") =>
        /\ \A i \in 1..(Len(product.materials) - 1) :
              StrLess(product.materials[i], product.materials[i + 1])
        /\ \A i, j \in DOMAIN product.materials :
              i # j => ~SameMaterial(product.materials[i], product.materials[j])

\* The words of a string: its maximal runs of characters that are not
\* whitespace.
Words(str) ==
    LET starts == {i \in DOMAIN str :
                      str[i] \notin Whitespace /\ (i = 1 \/ str[i - 1] \in Whitespace)}
        EndOf(i) == SetMin({j \in i..Len(str) :
                               j = Len(str) \/ str[j + 1] \in Whitespace})
        W[n \in 0..Len(str)] ==
            IF n = 0 THEN <<>>
            ELSE IF n \in starts THEN Append(W[n - 1], SubSeq(str, n, EndOf(n)))
            ELSE W[n - 1]
    IN W[Len(str)]
\* The AI string under a key, empty when the key is absent or holds null.
AiString(field) == IF field.kind = "str" THEN field.val ELSE <<>>
\* The cleaned AI title: its words joined by one space, the first character
\* in upper case, the rest unchanged.
CleanedTitle ==
    LET t == join(Words(AiString(ai_data.title)), " ")
    IN IF t = <<>> THEN <<>> ELSE <<UpperChar(t[1])>> \o Tail(t)
FinalTitle == IF CleanedTitle = <<>> THEN norm_name ELSE CleanedTitle

\* C18, as claimed: normalize_product returns a product whose title is the
\* cleaned AI title, or the raw folder name when that is empty, and whose
\* short_description is the trimmed AI value when that is non-empty and
\* the final title otherwise.
C18_TitleAndShortDescription ==
    (npc \in {"done", "again"} /\ ai_data.materials.kind # "null") =>
        /\ product.raised = "none"
        /\ product.title = FinalTitle
        /\ product.short_description =
              IF strip(AiString(ai_data.short_description)) # <<>>
              THEN strip(AiString(ai_data.short_description))
              ELSE FinalTitle

\* C19, as claimed: the description is the trimmed AI description, a blank
\* line and the care instructions, and the care instructions alone when the
\* AI description is absent, empty, or empty once trimmed.
C19_DescriptionIsTrimmedThenCare ==
    Normalized =>
        product.description =
            IF strip(AiString(ai_data.description)) = <<>>
            THEN care_instructions
            ELSE strip(AiString(ai_data.description)) \o <<"\n", "\n">> \o care_instructions

----------------------------------------------------------------------------
(* Claims about list_unfinished_folders (SpecLoad) *)

\* The records of a folders mapping whose status is in a set, in order.
WithStatusIn(folders, statuses) ==
    SelectSeq(folders, LAMBDA e : e.rec.status \in statuses)

\* C20, as claimed: list_unfinished_folders returns exactly the records whose
\* status is a member of the filter supplied, nothing for a filter without
\* members and never a record that has no status; without a filter it
\* returns exactly the records whose status is pending or failed.
C20_UnfinishedAreTheRecordsInFilter ==
    (qres.op = "unfinished" /\ ~qres.res.raised) =>
        qres.res.recs =
            WithStatusIn(lstate.folders,
                         IF qres.filter.given THEN qres.filter.val
                         ELSE {"pending", "failed"})

----------------------------------------------------------------------------
(* Claims about the exporter (SpecExport) *)

\* The image files supplied with a pair: none when image_files is None.
Supplied(pair) == IF pair.image_files.kind = "list" THEN pair.image_files.val ELSE <<>>
\* The name a file dict carries, "" when it carries none.
FileName(file) == IF file.name.kind = "str" THEN file.name.val ELSE <<>>
\* The last component of a local path, the path itself when it has none.
BaseName(path) ==
    IF \A i \in DOMAIN path : path[i] = "/" THEN path
    ELSE LET last == SetMax({i \in DOMAIN path : path[i] # "/"})
             before == {i \in 1..last : path[i] = "/"}
         IN SubSeq(path, IF before = {} THEN 1 ELSE SetMax(before) + 1, last)
\* Column i of a row filled left to right from names and padded with "".
ColumnFrom(names, i) == IF i <= Len(names) THEN names[i] ELSE <<>>
\* The export returned: one row per pair, in the order of the pairs.
OneRowPerPair ==
    /\ Len(csv_rows) = Len(export_in)
    /\ \A i \in DOMAIN csv_rows : csv_rows[i].SKU = export_in[i].product.id
\* Every row has exactly the columns image_1..image_10.
TenImageColumns == \A i \in DOMAIN csv_rows : DOMAIN csv_rows[i].image = 1..10
\* No name of an image after the tenth is in the row.
ExcessDropped(names, row) ==
    \A j \in DOMAIN names : j > 10 => \A c \in 1..10 : row.image[c] # names[j]

\* C21 as stated: every row has the columns image_1..image_10; with k image
\* files supplied, columns 1..min(k,10) hold the names of the first min(k,10)
\* files in order, the others hold "", the files after the tenth are nowhere
\* in the row; one row per pair in input order.
C21_ColumnsHoldSuppliedImages ==
    xpc = "done" =>
        /\ OneRowPerPair
        /\ TenImageColumns
        /\ \A i \in DOMAIN csv_rows :
              LET names == [j \in DOMAIN Supplied(export_in[i]) |->
                               FileName(Supplied(export_in[i])[j])]
              IN /\ \A c \in 1..10 : csv_rows[i].image[c] = ColumnFrom(names, c)
                 /\ ExcessDropped(names, csv_rows[i])

\* C21, amended: as above, except that a pair that supplies no image file
\* (None or an empty list) takes the names from product.image_paths instead:
\* the last path components of the first ten paths, then "".
C21_ColumnsHoldSuppliedImagesElsePaths ==
    xpc = "done" =>
        /\ OneRowPerPair
        /\ TenImageColumns
        /\ \A i \in DOMAIN csv_rows :
              LET files == Supplied(export_in[i])
                  paths == export_in[i].product.image_paths
                  names == IF files # <<>>
                           THEN [j \in DOMAIN files |-> FileName(files[j])]
                           ELSE [j \in DOMAIN paths |-> BaseName(paths[j])]
              IN /\ \A c \in 1..10 : csv_rows[i].image[c] = ColumnFrom(names, c)
                 /\ ExcessDropped(names, csv_rows[i])

\* An export of two pairs: the first supplies more than ten image files, the
\* second none and its product has image paths.
C21_Witness ==
    /\ xpc = "done"
    /\ Len(csv_rows) = 2
    /\ Len(Supplied(export_in[1])) > 10
    /\ csv_rows[1].image[10] = FileName(Supplied(export_in[1])[10])
    /\ Supplied(export_in[2]) = <<>>
    /\ export_in[2].product.image_paths # <<>>
    /\ export_in[1].product.id # export_in[2].product.id

----------------------------------------------------------------------------
(* Claims about the parser the pipeline uses (SpecParse) *)

\* The four name-derived fields of a FolderContext equal a parse result.
CarriesParse(context, result) ==
    /\ result.raised = "none"
    /\ context.product_type = result.product_type
    /\ context.raw_materials_str = result.materials
    /\ context.series = result.series
    /\ context.price_from_name = result.price

\* C22: for every folder name, the FolderContext build_folder_context
\* assembles carries the product_type, raw_materials_str, series and
\* price_from_name that core.folder_utils.parse_folder_name gives for the name.
C22_ContextCarriesSection41Parse ==
    (ppc = "done" /\ qpc = "done") =>
        CarriesParse(FolderContext(name, proc_parsed.product_type,
                                   proc_parsed.materials, proc_parsed.series,
                                   proc_parsed.price),
                     parsed)

\* The names on which the two parsers agree include those of exactly three
\* hyphen-separated tokens, none empty after trimming, whose text after the
\* last underscore (if any) is a number with no surrounding whitespace.
C22_AgreeOnThreePlainTokens ==
    (ppc = "done" /\ qpc = "done"
        /\ Len(split(PriceSplit(strip(name)).left, "-")) = 3
        /\ Len(Parts(PriceSplit(strip(name)).left)) = 3
        /\ (HasUnderscore(name) => PriceSplit(name).price.some)
        /\ ProcPriceSplit(strip(name)).price = PriceSplit(name).price) =>
        CarriesParse(build_folder_context(name), parsed)

----------------------------------------------------------------------------
(* Claims about the files of build_folder_context (SpecFetch) *)

\* The content type of a listed file starts with image/.
IsImage(f) ==
    /\ f.mimeType.kind = "str"
    /\ Len(f.mimeType.val) >= 6
    /\ SubSeq(f.mimeType.val, 1, 6) = <<"i", "m", "a", "g", "e", "/">>
\* The name of a listed file is note.txt, notes.txt or note in any case.
NamedLikeNote(f) ==
    /\ f.name.kind = "str"
    /\ lower(f.name.val) \in {<<"n", "o", "t", "e", ".", "t", "x", "t">>,
                              <<"n", "o", "t", "e", "s", ".", "t", "x", "t">>,
                              <<"n", "o", "t", "e">>}
\* The places of the listing that hold images, and note files among the rest.
ImagePlaces == {i \in DOMAIN folder_files : IsImage(folder_files[i])}
NotePlaces == {i \in DOMAIN folder_files : ~IsImage(folder_files[i]) /\ NamedLikeNote(folder_files[i])}

\* C23: build_folder_context raises when nothing is listed and when no listed
\* file is an image, having downloaded nothing; when it returns it has
\* downloaded the first listed image and, when a non-image is named like a
\* note, the first such file, and nothing else.
C23_DownloadsFirstImageAndFirstNote ==
    fpc = "done" =>
        /\ (ImagePlaces = {}) => (fetched.raised # "none" /\ fetched.downloads = <<>>)
        /\ (fetched.raised = "none") =>
              /\ ImagePlaces # {}
              /\ fetched.downloads =
                    <<folder_files[SetMin(ImagePlaces)].id>>
                    \o (IF NotePlaces = {} THEN <<>>
                        ELSE <<folder_files[SetMin(NotePlaces)].id>>)

\* A call that returned for a folder whose first file is not an image and
\* that lists two note files, one before and one after the image.
C23_Witness ==
    /\ fpc = "done"
    /\ fetched.raised = "none"
    /\ Len(fetched.downloads) = 2
    /\ Cardinality(NotePlaces) = 2
    /\ 1 \notin ImagePlaces
    /\ fetched.downloads[1] > fetched.downloads[2]

\* A call that raised because the folder lists files but no image.
C23_NoImageWitness ==
    /\ fpc = "done"
    /\ folder_files # <<>>
    /\ ImagePlaces = {}
    /\ fetched.raised = "RuntimeError: no images"

----------------------------------------------------------------------------
(* Claims about two stores over one file (SpecRace) *)

\* Both processes loaded the document before either wrote, each then wrote
\* once, for different folder ids.
TwoWritersOfOneDocument ==
    /\ Len(writes) = 2
    /\ writes[1].process # writes[2].process
    /\ writes[1].id # writes[2].id
    /\ \A q \in Processes : store_of[q].open /\ loaded_at[q] = 0

\* C24: two stores loaded from the same document, each marking a different
\* folder id, in either order: the document after both writes is the last
\* writer's whole mapping (the loaded records with the last writer's record
\* put in), and the first writer's record is not in it: its id has no record
\* when the loaded document had none, else the loaded one.
C24_LastWriterWinsWholeDocument ==
    TwoWritersOfOneDocument =>
        LET was == FoldersOf(_load(loaded_doc))
            last == writes[2]
            first == writes[1]
        IN /\ shared_doc.folders = store_of[last.process].state.folders
           /\ shared_doc.folders = Put(was, last.id, last.rec)
           /\ Has(shared_doc.folders, first.id) = Has(was, first.id)
           /\ Has(was, first.id) =>
                  Get(shared_doc.folders, first.id) = Get(was, first.id)
           /\ Has(store_of[first.process].state.folders, first.id)

\* Process B wrote last after A had added a record for an id the document
\* did not hold: the document holds B's record and none for A's id, while A's
\* store still holds it.
C24_Witness ==
    /\ TwoWritersOfOneDocument
    /\ writes[1].process = "A"
    /\ ~Has(FoldersOf(_load(loaded_doc)), writes[1].id)
    /\ ~Has(shared_doc.folders, writes[1].id)
    /\ Get(shared_doc.folders, writes[2].id) = writes[2].rec
    /\ FoldersOf(_load(loaded_doc)) # <<>>

\* The other interleaving: process A wrote last.
C24_WitnessOtherOrder ==
    /\ TwoWritersOfOneDocument
    /\ writes[1].process = "B"
    /\ ~Has(FoldersOf(_load(loaded_doc)), writes[1].id)
    /\ ~Has(shared_doc.folders, writes[1].id)

----------------------------------------------------------------------------
(* Claims about the discovery step of a run (Spec) *)

\* The record the document holds for id carries the same name, status and
\* platforms in both documents.
SameRecord(before, after, id) ==
    /\ id \in RecordedIds(after)
    /\ Get(after.folders, id).name = Get(before.folders, id).name
    /\ Get(after.folders, id).status = Get(before.folders, id).status
    /\ Get(after.folders, id).platforms = Get(before.folders, id).platforms

\* C25: no step of a run changes the name, status or platforms of a record
\* the document holds, so a record that is success or failed when the run
\* starts is never set back to pending; a record appears only in the
\* discovery loop, for the folder of new_folders being marked, and it is
\* exactly {name, "pending", {}}.
C25_DiscoveryWritesOnlyNewRecords ==
    [][pc # "idle" =>
          /\ \A id \in RecordedIds(doc) : SameRecord(doc, doc', id)
          /\ \A id \in RecordedIds(doc') \ RecordedIds(doc) :
                /\ pc = "mark"
                /\ id = new_folders[mi + 1].id
                /\ Get(doc'.folders, id) = Rec(NameOf(id), "pending", {}, {})]_vars

\* The discovery loop has marked a new folder while the document holds the
\* record of a listed folder that is success and one that is failed, both
\* written before the run.
C25_Witness ==
    /\ pc = "mark"
    /\ mi >= 1
    /\ lastCall.op = "mark" /\ lastCall.store = "main"
    /\ lastCall.prev = <<>>
    /\ StatusIn(doc, lastCall.id) = "pending"
    /\ \E j \in DOMAIN all_folders : StatusIn(doc, all_folders[j].id) \in {"success", "failed"}

====
